---- MODULE Spec2Model ----
(***************************************************************************)
(* A model of the signal mining and rollup pipeline of openclaw-trace:     *)
(*   - the Chunker            (mine_signals.py, _chunk_event_views)        *)
(*   - the Signal validator   (mine_signals.py, _validate_item)            *)
(*   - the Rollup Aggregator and the lexical Cluster Merger                *)
(*                            (rollup_signals.py)                          *)
(* Each component has its own specification (SpecChunk, SpecMine,          *)
(* SpecRollup) over the shared variables; the variables of the other       *)
(* components stay at their initial value.                                 *)
(*                                                                         *)
(* Conventions: a Python list is a sequence; a Python index p (0-based)    *)
(* is the sequence index p+1.  A text is a sequence of one-character       *)
(* strings.  sha256 is modelled as injective: an identifier is the text    *)
(* that is hashed.                                                         *)
(***************************************************************************)
EXTENDS Integers, Sequences, FiniteSets, TLC

VARIABLES
    \* ---- Chunker (one call of _chunk_event_views)
    views,          \* list[EventView]: the role of each view
    chunk_events,   \* cfg.chunk_events
    chunk_overlap,  \* cfg.chunk_overlap
    start,          \* local `start` of the while loop
    chunks,         \* local `chunks`: [start, end) ranges, base_end = end before extension
    cstate,         \* "entry" | "loop" | "done"
    \* ---- Signal Extractor (one run of mine_signals over a one-chunk session)
    mviews,         \* the chunk's views: [i, text]
    mcfg,           \* MineSignalsConfig limits
    raw_items,      \* the candidates of the last run (oracle reply or heuristics)
    items_out,      \* the signals the last run returned
    mstrategy,      \* "none" | "oracle" | "heuristic": strategy of the last run
    \* ---- Rollup Aggregator and Cluster Merger (one call of rollup_signals)
    items,          \* the input signals
    rcfg,           \* RollupConfig, MergeConfig, llm and embedding service
    knn,            \* the vector index's answers to the nearest-neighbour queries
    rsummary,       \* summary["counts"] of the call, once it has returned
    rollups,        \* the rollups the call returned
    rollups2,       \* the rollups of a second merge pass over `rollups`
    rstate,         \* "input" | "rolled" | "remerged" | "raised"
    \* ---- one run of mine_signals over the selected session files
    files,          \* the selected files: [readable, chunks]
    use_llm,        \* cfg.use_llm with an oracle client
    file_idx,       \* position of `for p in files`, from 1
    chunk_idx,      \* position of `for chunk in chunks`, from 1
    session_items,  \* local session_items
    run_items,      \* local items_out
    run_pc,         \* "files" | "chunks" | "returned" | "raised"
    run_error,      \* "none" | "oracle" | "file": what raised
    run_result,     \* what the caller received: <<>> or <<items_out>>
    \* ---- one run of the ticket exporter (scripts/ticket_rollup.py main)
    targs,          \* the command line: max_create, dry_run, scan_limit, ...
    phorge,         \* the tracker's tasks before the run: their fingerprint ids
    trecords,       \* local `rollups`: the records read from the input file
    existing,       \* local `existing`: fingerprint ids the scan found
    tpos,           \* position of `for r in rollups`, from 1
    created,        \* local `created`
    updates,        \* local `updates`
    new_tasks,      \* fingerprint ids of the tasks created, in order
    comments,       \* fingerprint ids of the update comments posted, in order
    tpc,            \* "scan" | "loop" | "done"
    \* ---- one call of _merge_rollups_jaccard, one pair or one find at a time
    mg_rs,          \* the argument `rollups`
    mg_cap,         \* cfg.max_pairs_per_block
    mg_parent,      \* local `parent`, from 1
    mg_edges,       \* the pairs union was called on
    mg_pos,         \* positions of the three loops: block b, i and j in idxs
    mg_pairs,       \* local `pairs`
    mg_k,           \* position of `for idx, r in enumerate(rollups)`, from 1
    mg_roots,       \* find(idx) of the positions already grouped
    mg_out,         \* the list _merge_groups returned
    mg_pc,          \* "pairs" | "groups" | "done"
    \* ---- one call of RecursiveAnalyzer.run
    max_iters,      \* self.cfg.max_iters
    program,        \* the argument `program`: "None" or what the program does
    an_it,          \* local `it` of the for loop
    last_error,     \* local `last_error`
    prompt_error,   \* header["last_error"] of the latest user prompt
    llm_calls,      \* calls of self.llm.complete made so far
    produced_code,  \* self.produced_code: what each generated code does
    an_pc,          \* "loop" | "exec" | "running" | "returned" | "raised"
    an_result       \* the dict run returned

chunkVars == <<views, chunk_events, chunk_overlap, start, chunks, cstate>>

mineVars == <<mviews, mcfg, raw_items, items_out, mstrategy>>

rollVars == <<items, rcfg, knn, rsummary, rollups, rollups2, rstate>>

runVars ==
    <<files, use_llm, file_idx, chunk_idx, session_items, run_items, run_pc,
      run_error, run_result>>

ticketVars ==
    <<targs, phorge, trecords, existing, tpos, created, updates, new_tasks,
      comments, tpc>>

mergeVars ==
    <<mg_rs, mg_cap, mg_parent, mg_edges, mg_pos, mg_pairs, mg_k, mg_roots,
      mg_out, mg_pc>>

analyzerVars ==
    <<max_iters, program, an_it, last_error, prompt_error, llm_calls,
      produced_code, an_pc, an_result>>

vars ==
    <<chunkVars, mineVars, rollVars, runVars, ticketVars, mergeVars,
      analyzerVars>>

\* ------------------------------------------------------------------ helpers

Min(a, b) == IF a <= b THEN a ELSE b

Max(a, b) == IF a >= b THEN a ELSE b

\* ------------------------------------------------------------------ bounds

\* longest enumerated session (number of Event Views)
MaxViews == 4

\* largest enumerated cfg.chunk_events / cfg.chunk_overlap
MaxChunkEvents == 3

\* longest enumerated text (digest, summary or quote), in characters
MaxStr == 2

\* longest enumerated list of input signals of rollup_signals
MaxItems == 3

\* the Rollup Aggregator's variables when another component is the subject
RollupIdle ==
    /\ items = <<>>
    /\ rcfg = <<>>
    /\ knn = <<>>
    /\ rsummary = <<>>
    /\ rollups = <<>>
    /\ rollups2 = <<>>
    /\ rstate = "input"

\* most session files in one run of mine_signals
MaxFiles == 2

\* most chunks of one session file
MaxFileChunks == 2

\* the variables of a run of mine_signals when another component is the subject
RunIdle ==
    /\ files = <<>>
    /\ use_llm = FALSE
    /\ file_idx = 1
    /\ chunk_idx = 1
    /\ session_items = <<>>
    /\ run_items = <<>>
    /\ run_pc = "files"
    /\ run_error = "none"
    /\ run_result = <<>>

\* longest enumerated list of records given to the ticket exporter
MaxRecords == 3

\* most rollups given to the stepwise Cluster Merger
MaxMergeRollups == 4

\* largest enumerated DriverConfig.max_iters
MaxIters == 3

\* the analyzer's variables when another component is the subject
AnalyzerIdle ==
    /\ max_iters = 0
    /\ program = "None"
    /\ an_it = 1
    /\ last_error = "None"
    /\ prompt_error = "absent"
    /\ llm_calls = 0
    /\ produced_code = <<>>
    /\ an_pc = "loop"
    /\ an_result = <<>>

\* the stepwise Cluster Merger's variables when another component is the
\* subject
MergeIdle ==
    /\ mg_rs = <<>>
    /\ mg_cap = 0
    /\ mg_parent = <<>>
    /\ mg_edges = {}
    /\ mg_pos = [b |-> 1, i |-> 1, j |-> 2]
    /\ mg_pairs = 0
    /\ mg_k = 1
    /\ mg_roots = <<>>
    /\ mg_out = <<>>
    /\ mg_pc = "pairs"

\* the ticket exporter's variables when another component is the subject
TicketIdle ==
    /\ targs = <<>>
    /\ phorge = <<>>
    /\ trecords = <<>>
    /\ existing = {}
    /\ tpos = 1
    /\ created = 0
    /\ updates = 0
    /\ new_tasks = <<>>
    /\ comments = <<>>
    /\ tpc = "scan"

\* the Signal Extractor's variables when another component is the subject
MineIdle ==
    /\ mviews = <<>>
    /\ mcfg = <<>>
    /\ raw_items = <<>>
    /\ items_out = <<>>
    /\ mstrategy = "none"

\* the Chunker's variables when another component is the subject
ChunkIdle ==
    /\ views = <<>>
    /\ chunk_events = 0
    /\ chunk_overlap = 0
    /\ start = 0
    /\ chunks = <<>>
    /\ cstate = "done"

\* ================================================================== Chunker

Roles == {"user", "assistant", "toolCall", "toolResult", "system"}

ShouldExtendNoToolPair(prev, nxt) ==
    \/ (prev = "toolResult" /\ nxt = "assistant")
    \/ (prev = "user" /\ nxt = "assistant")

\* _should_extend_boundary(prev, nxt)
ShouldExtendBoundary(prev, nxt) ==
    \/ (prev = "toolCall" /\ nxt = "toolResult")
    \/ (prev = "toolResult" /\ nxt = "assistant")
    \/ (prev = "user" /\ nxt = "assistant")

OverlapUpToWindow(W, O) == Max(0, Min(O, W))

\* overlap = max(0, min(cfg.chunk_overlap, cfg.chunk_events - 1))
Overlap(W, O) == Max(0, Min(O, W - 1))

\* step = max(1, cfg.chunk_events - overlap)
Step(W, O) == Max(1, W - Overlap(W, O))

\* end = min(n, start + cfg.chunk_events), before the boundary check
BaseEnd(vs, W, s) == Min(Len(vs), s + W)

ChunkEndNoExtend(vs, W, s) == BaseEnd(vs, W, s)

\* end after the boundary check: extended by one when the pair
\* (views[end-1], views[end]) is one that must not be split
ChunkEnd(vs, W, s) ==
    LET n == Len(vs)
        e == BaseEnd(vs, W, s)
    IN  IF e < n /\ ShouldExtendBoundary(vs[e], vs[e + 1])
        THEN Min(n, e + 1)
        ELSE e

\* the tail of the loop body: the start of the next window
NextStart(W, O, end) ==
    LET s1 == Max(0, end - Overlap(W, O))
    IN  IF s1 = end THEN end + Step(W, O) ELSE s1

\* sessions of up to MaxViews views with any roles
ShortSessions == UNION {[1 .. n -> Roles] : n \in 0 .. MaxViews}

\* a 20-view session with a toolCall at 0-based position p, its toolResult
\* right after it, and role bg everywhere else
PairSession(p, bg) ==
    [k \in 1 .. 20 |-> IF k = p + 1 THEN "toolCall"
                       ELSE IF k = p + 2 THEN "toolResult"
                       ELSE bg]

ChunkInputs ==
    (ShortSessions \X (-1 .. MaxChunkEvents) \X (-1 .. MaxChunkEvents + 1))
    \cup ({PairSession(p, bg) : p \in {9, 10}, bg \in Roles} \X {10} \X {0, 4})

InitChunk ==
    /\ AnalyzerIdle
    /\ MergeIdle
    /\ \E inp \in ChunkInputs :
          /\ views = inp[1]
          /\ chunk_events = inp[2]
          /\ chunk_overlap = inp[3]
    /\ start = 0
    /\ chunks = <<>>
    /\ cstate = "entry"
    /\ MineIdle
    /\ RollupIdle
    /\ RunIdle
    /\ TicketIdle

\* `if not views or cfg.chunk_events <= 0: return []`, else enter the loop
ChunkEnter ==
    /\ cstate = "entry"
    /\ cstate' = IF Len(views) = 0 \/ chunk_events <= 0 THEN "done" ELSE "loop"
    /\ UNCHANGED <<views, chunk_events, chunk_overlap, start, chunks, mineVars, rollVars, runVars, ticketVars, mergeVars,
                   analyzerVars>>

\* one iteration of `while start < n`
ChunkIter ==
    /\ cstate = "loop"
    /\ start < Len(views)
    /\ LET n == Len(views)
           end == ChunkEnd(views, chunk_events, start)
           s1 == Max(0, end - Overlap(chunk_events, chunk_overlap))
       IN  IF start >= end
           THEN \* `if not chunk_views: break`
                /\ cstate' = "done"
                /\ UNCHANGED <<start, chunks>>
           ELSE /\ chunks' = Append(chunks,
                        [start |-> start, end |-> end,
                         base_end |-> BaseEnd(views, chunk_events, start)])
                /\ IF end >= n \/ s1 >= n
                   THEN /\ cstate' = "done"
                        /\ start' = IF end >= n THEN start ELSE s1
                   ELSE /\ cstate' = "loop"
                        /\ start' = NextStart(chunk_events, chunk_overlap, end)
    /\ UNCHANGED <<views, chunk_events, chunk_overlap, mineVars, rollVars, runVars, ticketVars, mergeVars,
                   analyzerVars>>

\* the loop condition `start < n` fails: return chunks
ChunkExit ==
    /\ cstate = "loop"
    /\ start >= Len(views)
    /\ cstate' = "done"
    /\ UNCHANGED <<views, chunk_events, chunk_overlap, start, chunks, mineVars, rollVars, runVars, ticketVars, mergeVars,
                   analyzerVars>>

NextChunk == ChunkEnter \/ ChunkIter \/ ChunkExit

SpecChunk == InitChunk /\ [][NextChunk]_vars

\* the scheduling of one call: the interpreter keeps running the loop
SpecChunkFair == SpecChunk /\ WF_vars(NextChunk)

\* C17: _chunk_event_views terminates for every view list and every integer
\* chunk_events and chunk_overlap: the call returns, the starts of
\* successive chunks strictly increase, and an empty view list or a
\* chunk_events <= 0 yields no chunk
C17_Terminates ==
    /\ <>(cstate = "done")
    /\ [](\A k \in 1 .. Len(chunks) - 1 : chunks[k].start < chunks[k + 1].start)
    /\ []((Len(views) = 0 \/ chunk_events <= 0) => chunks = <<>>)

\* a call with chunk_overlap >= chunk_events has returned several chunks
C17_Witness ==
    /\ cstate = "done"
    /\ chunk_overlap >= chunk_events
    /\ Len(chunks) >= 3

\* 0-based view position p lies in chunk c
InChunk(c, p) == c.start <= p /\ p < c.end

ChunkSet == {chunks[k] : k \in 1 .. Len(chunks)}

\* C2: once chunking is done, for N >= 1, W >= 1 and 0 <= O < W every view
\* position in [0, N) belongs to at least one chunk
C2_Coverage ==
    (/\ cstate = "done"
     /\ Len(views) >= 1
     /\ chunk_events >= 1
     /\ 0 <= chunk_overlap
     /\ chunk_overlap < chunk_events)
    => \A p \in 0 .. Len(views) - 1 : \E c \in ChunkSet : InChunk(c, p)

\* C3: no chunk that ends before the end of the session has a toolCall as
\* its last view and a toolResult as the first view after it
C3_ToolPairKept ==
    \A c \in ChunkSet :
        c.end < Len(views)
        => ~(views[c.end] = "toolCall" /\ views[c.end + 1] = "toolResult")

\* a chunk was extended over a toolCall -> toolResult boundary and still
\* ends before the end of the session
C3_Witness ==
    \E c \in ChunkSet :
        /\ c.end < Len(views)
        /\ c.end = c.base_end + 1
        /\ views[c.base_end] = "toolCall"
        /\ views[c.base_end + 1] = "toolResult"

\* C18: no chunk that ends before the end of the session is cut between a
\* toolCall and its toolResult, between a toolResult and the assistant view
\* after it, or between a user view and the assistant view after it
C18_NoPairSplit ==
    \A c \in ChunkSet :
        c.end < Len(views)
        => ~ShouldExtendBoundary(views[c.end], views[c.end + 1])

\* the session of the example: 20 views, chunk_events = 10, a toolCall at
\* 0-based position p and its toolResult at p + 1
PairScenario(p) ==
    /\ Len(views) = 20
    /\ chunk_events = 10
    /\ views[p + 1] = "toolCall"
    /\ views[p + 2] = "toolResult"

\* C4 as stated: with the toolCall at index 10 and the toolResult at index
\* 11, the chunk whose boundary falls at index 10 contains index 11
C4_Original ==
    (cstate = "done" /\ PairScenario(10))
    => \E c \in ChunkSet : c.base_end = 10 /\ InChunk(c, 11)

\* C4 amended: with the toolCall as the last view of the first window
\* (0-based position 9) and the toolResult at position 10, the chunk whose
\* boundary falls at index 10 is extended by one view and contains
\* position 10
C4_BoundaryExtended ==
    (cstate = "done" /\ PairScenario(9))
    => \E c \in ChunkSet :
          /\ c.base_end = 10
          /\ c.end = 11
          /\ InChunk(c, 9)
          /\ InChunk(c, 10)

C4_Witness ==
    /\ cstate = "done"
    /\ PairScenario(9)
    /\ \E c \in ChunkSet : c.start = 0 /\ c.end = 11

\* ========================================================= Signal Extractor

\* the characters of the enumerated texts; "." only appears in the "..."
\* that _truncate appends
Chars == {"a", "b", " "}

\* all texts of at most n characters
TextsUpTo(n) == UNION {[1 .. k -> Chars] : k \in 0 .. n}

\* a value that is not a str (None, a number, ...) where a text is expected
NoneText == <<"None">>

\* a value that is not a str where a kind or a severity is expected
NotStr == "<not-a-str>"

RECURSIVE LStrip(_)
\* str.lstrip()
LStrip(t) == IF t # <<>> /\ Head(t) = " " THEN LStrip(Tail(t)) ELSE t

RECURSIVE RStrip(_)
\* str.rstrip()
RStrip(t) ==
    IF t # <<>> /\ t[Len(t)] = " " THEN RStrip(SubSeq(t, 1, Len(t) - 1)) ELSE t

\* str.strip()
Strip(t) == RStrip(LStrip(t))

\* t[:k], with Python's meaning of a negative k
Slice(t, k) ==
    IF k >= 0 THEN SubSeq(t, 1, Min(k, Len(t)))
    ELSE SubSeq(t, 1, Max(0, Len(t) + k))

\* `q in t` for two str
IsSubstring(q, t) ==
    \E k \in 0 .. (Len(t) - Len(q)) : SubSeq(t, k + 1, k + Len(q)) = q

\* _truncate(text, max_chars)[0]
Truncate(text, max_chars) ==
    LET t == Strip(text)
    IN  IF max_chars <= 0 THEN <<>>
        ELSE IF Len(t) <= max_chars THEN t
        ELSE RStrip(Slice(t, max_chars - 3)) \o <<".", ".", ".">>

QuoteWithinUnchecked(text, quote, max_chars) ==
    LET q0 == Strip(quote)
        q1 == IF Len(q0) > max_chars THEN RStrip(Slice(q0, max_chars)) ELSE q0
    IN  IF q0 = <<>> THEN NoneText ELSE q1

\* _quote_within(text, quote, max_chars); NoneText stands for None
QuoteWithin(text, quote, max_chars) ==
    LET q0 == Strip(quote)
        q1 == IF Len(q0) > max_chars THEN RStrip(Slice(q0, max_chars)) ELSE q0
    IN  IF q0 = <<>> THEN NoneText
        ELSE IF q1 # <<>> /\ IsSubstring(q1, text) THEN q1
        ELSE NoneText

ALLOWED_KINDS ==
    {"error", "user_frustration", "improvement_suggestion",
     "experiment_suggestion", "proactive_opportunity", "user_delight", "other"}

ALLOWED_SEVERITIES == {"low", "medium", "high", "critical", "unknown"}

\* str.strip() on the enumerated spellings of a kind or a severity
StrStrip(s) ==
    CASE s = " error " -> "error"
      [] s = " medium" -> "medium"
      [] s = " Medium" -> "Medium"
      [] OTHER -> s

\* str.lower() on the enumerated spellings of a kind or a severity
StrLower(s) ==
    CASE s = "HIGH" -> "high"
      [] s = " Medium" -> " medium"
      [] s = "Error" -> "error"
      [] OTHER -> s

EventMapGetFirst(vs, event_i) == <<vs[1]>>

\* event_map = {v.i: v for v in chunk["views"]}; event_map.get(event_i) as a
\* list of zero or one view
EventMapGet(vs, event_i) ==
    LET hits == {k \in 1 .. Len(vs) : vs[k].i = event_i}
    IN  IF hits = {} THEN <<>> ELSE <<vs[CHOOSE k \in hits : \A j \in hits : j <= k]>>

RECURSIVE ValidatedEvidence(_, _, _)
\* the loop over evidence[: cfg.max_evidence_per_item] of _validate_item
ValidatedEvidence(evidence, vs, cfg) ==
    IF evidence = <<>> THEN <<>>
    ELSE LET ev == Head(evidence)
             rest == ValidatedEvidence(Tail(evidence), vs, cfg)
             view == EventMapGet(vs, ev.event_i)
         IN  IF view = <<>> \/ ev.quote = NoneText THEN rest
             ELSE LET quote == QuoteWithin(view[1].text, ev.quote, cfg.max_quote_chars)
                  IN  IF quote = NoneText \/ quote = <<>> THEN rest
                      ELSE <<[event_i |-> ev.event_i, quote |-> quote]>> \o rest

\* severity of the signal
ValidSeverity(sev) ==
    IF sev = NotStr THEN "unknown"
    ELSE IF StrStrip(StrLower(sev)) \in ALLOWED_SEVERITIES
         THEN StrStrip(StrLower(sev))
    ELSE "unknown"

\* confidence of the signal, in hundredths; a candidate's confidence is
\* [isnum, v]
ValidConfidence(conf) ==
    IF ~conf.isnum THEN 50
    ELSE IF conf.v < 0 \/ conf.v > 100 THEN 50
    ELSE conf.v

DedupeSeedNoSummary(session_id, kind, summary, evidence) ==
    [session_id |-> session_id,
     kind |-> kind,
     summary |-> <<>>,
     quotes |-> [k \in 1 .. Len(evidence) |-> evidence[k].quote]]

\* dedupe_seed: the text whose sha256 is the item_id
DedupeSeed(session_id, kind, summary, evidence) ==
    [session_id |-> session_id,
     kind |-> kind,
     summary |-> summary,
     quotes |-> [k \in 1 .. Len(evidence) |-> evidence[k].quote]]

\* _validate_item(item, event_map, cfg, session_id, file_hint, chunk_id) as
\* a list: empty for None, else the one signal
ValidateItem(item, vs, cfg, session_id, chunk_id) ==
    LET kind == StrStrip(item.kind)
        summary == Truncate(item.summary, cfg.max_summary_chars)
        evidence == ValidatedEvidence(
                        Slice(item.evidence, cfg.max_evidence_per_item), vs, cfg)
    IN  IF item.kind = NotStr \/ kind \notin ALLOWED_KINDS THEN <<>>
        ELSE IF item.summary = NoneText \/ Strip(item.summary) = <<>> THEN <<>>
        ELSE IF item.evidence = <<>> \/ evidence = <<>> THEN <<>>
        ELSE <<[item_id |-> DedupeSeed(session_id, kind, summary, evidence),
                session_id |-> session_id,
                chunk_id |-> chunk_id,
                kind |-> kind,
                summary |-> summary,
                severity |-> ValidSeverity(item.severity),
                confidence |-> ValidConfidence(item.confidence),
                evidence |-> evidence]>>

\* session_id = "sha256:" + hash of the file's relative path
SessionId == "sha256:session-1"

\* f"{session_id}/{chunk_id}" of the session's only chunk
ChunkId == "sha256:session-1/chunk:0"

RECURSIVE InsertByConfidence(_, _)
\* x placed after every signal whose confidence is not smaller
InsertByConfidence(sorted, x) ==
    IF sorted = <<>> THEN <<x>>
    ELSE IF Head(sorted).confidence >= x.confidence
         THEN <<Head(sorted)>> \o InsertByConfidence(Tail(sorted), x)
    ELSE <<x>> \o sorted

RECURSIVE SortByConfidence(_)
\* sorted(validated, key=confidence, reverse=True): stable, descending
SortByConfidence(signals) ==
    IF signals = <<>> THEN <<>>
    ELSE InsertByConfidence(
             SortByConfidence(SubSeq(signals, 1, Len(signals) - 1)),
             signals[Len(signals)])

RECURSIVE ValidateAll(_, _, _, _, _)
\* the loop `for item in raw_items` of mine_signals
ValidateAll(raw, vs, cfg, session_id, chunk_id) ==
    IF raw = <<>> THEN <<>>
    ELSE ValidateItem(Head(raw), vs, cfg, session_id, chunk_id)
         \o ValidateAll(Tail(raw), vs, cfg, session_id, chunk_id)

\* what one chunk adds to session_items
MineChunk(raw, vs, cfg, session_id, chunk_id) ==
    Slice(SortByConfidence(ValidateAll(raw, vs, cfg, session_id, chunk_id)),
          cfg.max_items_per_chunk)

\* the candidate _heuristic_extract appends for a view that a rule of kind
\* `kind` matched
HeuristicItem(view, kind, cfg) ==
    [kind |-> kind,
     summary |-> Truncate(view.text, cfg.max_summary_chars),
     severity |-> IF kind \in {"error", "user_frustration"} THEN "medium" ELSE "low",
     confidence |-> [isnum |-> TRUE,
                     v |-> IF kind \in {"error", "user_frustration"} THEN 40 ELSE 30],
     evidence |-> <<[event_i |-> view.i,
                     quote |-> Truncate(view.text, cfg.max_quote_chars)]>>]

RECURSIVE HeuristicLoop(_, _, _, _)
\* the loop `for view in views` of _heuristic_extract; hits[k] is the kind of
\* the first rule that matches view k, or "none"
HeuristicLoop(vs, hits, cfg, found) ==
    IF vs = <<>> THEN found
    ELSE LET view == Head(vs)
             hit == Head(hits)
             more == IF hit = "none" THEN found
                     ELSE Append(found, HeuristicItem(view, hit, cfg))
         IN  IF view.text = <<>>
             THEN HeuristicLoop(Tail(vs), Tail(hits), cfg, found)
             ELSE IF hit \in {"none", "improvement_suggestion"}
                     /\ Len(more) >= cfg.max_items_per_chunk
             THEN more
             ELSE HeuristicLoop(Tail(vs), Tail(hits), cfg, more)

\* _heuristic_extract(chunk, cfg)
HeuristicExtract(vs, hits, cfg) ==
    Slice(HeuristicLoop(vs, hits, cfg, <<>>), cfg.max_items_per_chunk)

\* the rule kinds enumerated for the heuristic pass
HeuristicHits == {"none", "error", "improvement_suggestion"}

\* digests: _digest_text returns stripped text
DigestTexts(n) == {t \in TextsUpTo(n) : Strip(t) = t}

\* redact_text(text): "PII redaction stub (no-op in v1)"
RedactText(text) == text

\* raw event texts that carry an e-mail address; the one character "@"
\* stands for the whole address
AddressTexts == {<<"a", "@">>}

\* _event_text_digest for a text below max_text_chars: the stripped raw text
\* goes through redact_text and then _digest_text, which strips it
EventTextDigest(raw) == Strip(RedactText(Strip(raw)))

\* the chunk: two views, transcript indices 0 and 2 (index 1 was skipped
\* as metadata)
MineViews ==
    {<<[i |-> 0, text |-> t0], [i |-> 2, text |-> t1]>> :
        t0 \in DigestTexts(MaxStr) \cup {EventTextDigest(r) : r \in AddressTexts},
        t1 \in DigestTexts(1)}

\* MineSignalsConfig defaults
DefaultMaxSummaryChars == 120

DefaultMaxQuoteChars == 200

DefaultMaxEvidencePerItem == 2

DefaultMaxItemsPerChunk == 10

DefaultMineConfig ==
    [max_summary_chars |-> DefaultMaxSummaryChars,
     max_quote_chars |-> DefaultMaxQuoteChars,
     max_evidence_per_item |-> DefaultMaxEvidencePerItem,
     max_items_per_chunk |-> DefaultMaxItemsPerChunk]

\* the enumerated configurations: the defaults with one limit changed
MineConfigs ==
    {[DefaultMineConfig EXCEPT !.max_summary_chars = n] : n \in 0 .. 4}
    \cup {[DefaultMineConfig EXCEPT !.max_quote_chars = n] : n \in 0 .. MaxStr}
    \cup {[DefaultMineConfig EXCEPT !.max_evidence_per_item = n] : n \in 0 .. 1}
    \cup {[DefaultMineConfig EXCEPT !.max_items_per_chunk = n] : n \in 0 .. 1}

\* summaries longer than every enumerated max_summary_chars
LongTexts ==
    {<<"a", "b", "b", "a", "b">>, <<"a", "b", "b", "a", "a">>,
     <<"a", " ", "b", "a", "b">>, <<"b", "b", "b", "a", "b">>}

SummaryTexts == TextsUpTo(MaxStr) \cup LongTexts

\* a well-formed candidate that quotes view 0 exactly
BaseItem(vs) ==
    [kind |-> "error",
     summary |-> <<"a">>,
     severity |-> "low",
     confidence |-> [isnum |-> TRUE, v |-> 50],
     evidence |-> <<[event_i |-> vs[1].i, quote |-> vs[1].text]>>]

\* evidence entries: an index in or out of the chunk, any short quote
EvidenceEntries ==
    [event_i : {0, 1, 2}, quote : TextsUpTo(MaxStr) \cup {NoneText}]

\* entries that quote a view exactly, and one that quotes what is not there
ExactEntries(vs) ==
    {[event_i |-> vs[k].i, quote |-> vs[k].text] : k \in 1 .. Len(vs)}
    \cup {[event_i |-> vs[1].i, quote |-> vs[1].text \o <<"b">>]}

\* the candidates an oracle reply is drawn from: the base candidate with its
\* kind and summary, or its evidence, or its severity, or its confidence
\* replaced
Candidates(vs) ==
    {[BaseItem(vs) EXCEPT !.kind = k, !.summary = s] :
        k \in {"error", " error ", "Error", "other", "bogus", NotStr},
        s \in SummaryTexts \cup {NoneText}}
    \cup {[BaseItem(vs) EXCEPT !.evidence = ev] :
        ev \in {<<>>} \cup {<<e>> : e \in EvidenceEntries}
                \cup {<<e1, e2>> : e1 \in ExactEntries(vs), e2 \in ExactEntries(vs)}}
    \cup {[BaseItem(vs) EXCEPT !.severity = sev] :
        sev \in {"HIGH", " Medium", "critical", "bogus", NotStr}}
    \cup {[BaseItem(vs) EXCEPT !.confidence = c] :
        c \in {[isnum |-> FALSE, v |-> 0]}
               \cup {[isnum |-> TRUE, v |-> n] : n \in {-20, 0, 40, 100, 150}}}

InitMine ==
    /\ AnalyzerIdle
    /\ MergeIdle
    /\ mviews \in MineViews
    /\ mcfg \in MineConfigs
    /\ raw_items = <<>>
    /\ items_out = <<>>
    /\ mstrategy = "none"
    /\ ChunkIdle
    /\ RollupIdle
    /\ RunIdle
    /\ TicketIdle

\* a run of mine_signals with the oracle: the reply holds no candidate
\* (malformed JSON) or one candidate
MineOracle ==
    /\ mstrategy = "none"
    /\ \E reply \in {<<>>} \cup {<<c>> : c \in Candidates(mviews)} :
          /\ raw_items' = reply
          /\ items_out' = MineChunk(reply, mviews, mcfg, SessionId, ChunkId)
    /\ mstrategy' = "oracle"
    /\ UNCHANGED <<mviews, mcfg, chunkVars, rollVars, runVars, ticketVars, mergeVars,
                   analyzerVars>>

\* a run of mine_signals with the heuristics (NoLLMClient)
MineHeuristic ==
    /\ mstrategy = "none"
    /\ \E hits \in [1 .. Len(mviews) -> HeuristicHits] :
          /\ raw_items' = HeuristicExtract(mviews, hits, mcfg)
          /\ items_out' = MineChunk(raw_items', mviews, mcfg, SessionId, ChunkId)
    /\ mstrategy' = "heuristic"
    /\ UNCHANGED <<mviews, mcfg, chunkVars, rollVars, runVars, ticketVars, mergeVars,
                   analyzerVars>>

NextMine == MineOracle \/ MineHeuristic

SpecMine == InitMine /\ [][NextMine]_vars

SignalSet == {items_out[k] : k \in 1 .. Len(items_out)}

\* the text still shows an e-mail address
HasAddress(text) == \E k \in 1 .. Len(text) : text[k] = "@"

\* C16: the event text handed to the oracle in the prompt and the summary of
\* every signal mine_signals returns have been masked by the redaction
\* filter: none of them still shows an e-mail address
C16_TextRedacted ==
    /\ mstrategy = "oracle" =>
          \A k \in 1 .. Len(mviews) : ~HasAddress(mviews[k].text)
    /\ \A sig \in SignalSet : ~HasAddress(sig.summary)

\* C1: every evidence quote of every returned signal is a non-empty exact
\* substring of the text of the view whose index is the entry's event_i
C1_Grounded ==
    \A sig \in SignalSet :
        \A n \in 1 .. Len(sig.evidence) :
            /\ sig.evidence[n].quote # <<>>
            /\ \E k \in 1 .. Len(mviews) :
                  /\ mviews[k].i = sig.evidence[n].event_i
                  /\ IsSubstring(sig.evidence[n].quote, mviews[k].text)

\* an oracle candidate with one grounded and one ungrounded quote was
\* accepted with the grounded entry only
C1_Witness ==
    /\ mstrategy = "oracle"
    /\ Len(items_out) = 1
    /\ Len(raw_items[1].evidence) = 2
    /\ Len(items_out[1].evidence) = 1
    /\ \E n \in 1 .. 2 : raw_items[1].evidence[n].quote \notin
            {mviews[k].text : k \in 1 .. Len(mviews)}

\* the signal of the last oracle candidate with its summary replaced by s
WithSummary(s) ==
    ValidateItem([raw_items[1] EXCEPT !.summary = s], mviews, mcfg, SessionId, ChunkId)

\* C5 as stated: a candidate that differs from an accepted one only in its
\* summary text receives a different item_id
C5_Original ==
    (mstrategy = "oracle" /\ Len(items_out) = 1)
    => \A s \in SummaryTexts :
          (s # raw_items[1].summary /\ WithSummary(s) # <<>>)
          => WithSummary(s)[1].item_id # items_out[1].item_id

\* C5 amended: a candidate that differs from an accepted one only in its
\* summary text receives a different item_id when the two summaries still
\* differ after validation has stripped and truncated them
C5_SummaryChangesId ==
    (mstrategy = "oracle" /\ Len(items_out) = 1)
    => \A s \in SummaryTexts :
          (/\ WithSummary(s) # <<>>
           /\ Truncate(s, mcfg.max_summary_chars)
                # Truncate(raw_items[1].summary, mcfg.max_summary_chars))
          => WithSummary(s)[1].item_id # items_out[1].item_id

\* an accepted candidate for which one other summary normalises to a
\* different text and another one to the same text
C5_Witness ==
    /\ mstrategy = "oracle"
    /\ Len(items_out) = 1
    /\ \E s1, s2 \in SummaryTexts :
          /\ WithSummary(s1) # <<>>
          /\ WithSummary(s2) # <<>>
          /\ s2 # raw_items[1].summary
          /\ WithSummary(s1)[1].summary # items_out[1].summary
          /\ WithSummary(s2)[1].summary = items_out[1].summary

\* a list in the opposite order
Reversed(s) == [k \in 1 .. Len(s) |-> s[Len(s) + 1 - k]]

\* the signal of the last oracle candidate with its evidence entries given
\* in the opposite order
WithReversedEvidence ==
    ValidateItem([raw_items[1] EXCEPT !.evidence = Reversed(raw_items[1].evidence)],
                 mviews, mcfg, SessionId, ChunkId)

\* the evidence entries of a signal, without their order
EvidenceSet(sig) == {sig.evidence[k] : k \in 1 .. Len(sig.evidence)}

\* C19: the item_id is computed over the sorted evidence quotes: a candidate
\* whose evidence entries come in a different order, and is accepted with
\* the same entries, receives the same item_id
C19_EvidenceOrderIgnored ==
    (/\ mstrategy = "oracle"
     /\ Len(items_out) = 1
     /\ WithReversedEvidence # <<>>
     /\ EvidenceSet(WithReversedEvidence[1]) = EvidenceSet(items_out[1]))
    => WithReversedEvidence[1].item_id = items_out[1].item_id

\* C20: the confidence of a returned signal is the candidate's confidence
\* clamped to [0, 1] (in hundredths: above 100 gives 100, below 0 gives 0),
\* and 0.5 when the candidate has no numeric confidence
C20_ConfidenceClamped ==
    (mstrategy = "oracle" /\ Len(items_out) = 1)
    => LET conf == raw_items[1].confidence
       IN  items_out[1].confidence =
               IF ~conf.isnum THEN 50 ELSE Max(0, Min(100, conf.v))

\* the last oracle candidate has an allowed kind and a non-empty summary
KindAndSummaryOk ==
    /\ mstrategy = "oracle"
    /\ raw_items # <<>>
    /\ raw_items[1].kind # NotStr
    /\ StrStrip(raw_items[1].kind) \in ALLOWED_KINDS
    /\ raw_items[1].summary # NoneText
    /\ Strip(raw_items[1].summary) # <<>>

\* _validate_item accepts the last oracle candidate
Accepted == ValidateItem(raw_items[1], mviews, mcfg, SessionId, ChunkId) # <<>>

\* the entry references a view of the chunk and its quote, as given by the
\* oracle (surrounding whitespace aside), is a non-empty literal substring
\* of that view's digest
QuotesVerbatim(ev) ==
    /\ ev.quote # NoneText
    /\ Strip(ev.quote) # <<>>
    /\ \E k \in 1 .. Len(mviews) :
          mviews[k].i = ev.event_i /\ IsSubstring(Strip(ev.quote), mviews[k].text)

\* the entry references a view of the chunk and its quote, stripped and cut
\* to max_quote_chars, is a non-empty literal substring of that view's digest
QuotesAfterCut(ev) ==
    /\ ev.quote # NoneText
    /\ LET q == Strip(ev.quote)
           cut == IF Len(q) > mcfg.max_quote_chars
                  THEN RStrip(Slice(q, mcfg.max_quote_chars)) ELSE q
       IN  /\ cut # <<>>
           /\ \E k \in 1 .. Len(mviews) :
                 mviews[k].i = ev.event_i /\ IsSubstring(cut, mviews[k].text)

\* C21 as stated: a candidate with an allowed kind and a non-empty summary is
\* accepted if and only if at least one of its evidence entries references a
\* view of the chunk and quotes a literal substring of its digest
C21_Original ==
    KindAndSummaryOk
    => (Accepted <=> \E k \in 1 .. Len(raw_items[1].evidence) :
                        QuotesVerbatim(raw_items[1].evidence[k]))

\* C21 amended: a candidate with an allowed kind and a non-empty summary is
\* accepted if and only if at least one of the evidence entries kept by the
\* max_evidence_per_item cap references a view of the chunk and its quote,
\* cut to max_quote_chars, is a non-empty literal substring of that view's
\* digest; the severity never decides (outside the allowed set it becomes
\* "unknown")
C21_AcceptedIffEvidenceSurvives ==
    KindAndSummaryOk
    => LET item == raw_items[1]
           kept == Slice(item.evidence, mcfg.max_evidence_per_item)
           sig == ValidateItem(item, mviews, mcfg, SessionId, ChunkId)
       IN  /\ Accepted <=> \E k \in 1 .. Len(kept) : QuotesAfterCut(kept[k])
           /\ Accepted <=>
                 ValidateItem([item EXCEPT !.severity = "low"],
                              mviews, mcfg, SessionId, ChunkId) # <<>>
           /\ Accepted =>
                 /\ sig[1].severity \in ALLOWED_SEVERITIES
                 /\ (item.severity = NotStr
                     \/ StrStrip(StrLower(item.severity)) \notin ALLOWED_SEVERITIES)
                    => sig[1].severity = "unknown"

\* an accepted candidate none of whose quotes is, as given, a substring of
\* the view it references: the quote was cut to max_quote_chars first
C21_Witness ==
    /\ KindAndSummaryOk
    /\ Accepted
    /\ \A k \in 1 .. Len(raw_items[1].evidence) :
          ~QuotesVerbatim(raw_items[1].evidence[k])

\* C26: every candidate _heuristic_extract produces for the chunk is accepted
\* by _validate_item against that chunk
C26_HeuristicCandidatesAccepted ==
    mstrategy = "heuristic"
    => \A k \in 1 .. Len(raw_items) :
          ValidateItem(raw_items[k], mviews, mcfg, SessionId, ChunkId) # <<>>

\* ====================================== Rollup Aggregator and Cluster Merger

SEVERITY_ORDER ==
    [critical |-> 4, high |-> 3, medium |-> 2, low |-> 1, unknown |-> 0]

\* _severity_rank(sev)
SeverityRank(sev) ==
    IF sev \in DOMAIN SEVERITY_ORDER THEN SEVERITY_ORDER[sev] ELSE 0

STOPWORDS ==
    {"the", "a", "an", "and", "or", "to", "of", "in", "on", "for", "with",
     "by", "is", "are", "was", "were", "be", "this", "that", "it", "as", "at",
     "from", "into", "we", "you", "they", "i", "our", "your", "their"}

\* _redact on one word of a summary: the enumerated words hold one e-mail
\* address; nothing else matches a masking pattern
RedactWord(w) == IF w = "bob@example.com" THEN "[email]" ELSE w

\* _redact(text), a summary being a list of words
Redact(text) == [k \in 1 .. Len(text) |-> RedactWord(text[k])]

\* _normalize on one word: lower-case, punctuation to spaces, split
NormWord(w) ==
    CASE w = "Connection" -> <<"connection">>
      [] w = "Timeout" -> <<"timeout">>
      [] w = "A" -> <<"a">>
      [] w = "[email]" -> <<"email">>
      [] w = "bob@example.com" -> <<"bob", "example", "com">>
      [] OTHER -> <<w>>

RECURSIVE NormalizeSplit(_)
\* _normalize(text).split()
NormalizeSplit(text) ==
    IF text = <<>> THEN <<>>
    ELSE NormWord(Head(text)) \o NormalizeSplit(Tail(text))

\* _tokens(text)
Tokens(text) ==
    LET all == NormalizeSplit(text)
        kept == SelectSeq(all, LAMBDA t : t \notin STOPWORDS)
    IN  IF kept = <<>> THEN all ELSE kept

\* _bigrams(tokens): a bigram is the pair of its two tokens
Bigrams(tokens) ==
    IF Len(tokens) < 2 THEN [k \in 1 .. Len(tokens) |-> <<tokens[k]>>]
    ELSE [k \in 1 .. Len(tokens) - 1 |-> <<tokens[k], tokens[k + 1]>>]

\* the position of a tag in Python's string order
TagRank(t) ==
    CASE t = "incident" -> 1
      [] t = "network" -> 2
      [] OTHER -> 3

RECURSIVE InsertTag(_, _)
InsertTag(sorted, t) ==
    IF sorted = <<>> THEN <<t>>
    ELSE IF TagRank(Head(sorted)) <= TagRank(t)
         THEN <<Head(sorted)>> \o InsertTag(Tail(sorted), t)
    ELSE <<t>> \o sorted

RECURSIVE SortedTags(_)
\* sorted(tags)
SortedTags(tags) ==
    IF tags = <<>> THEN <<>>
    ELSE InsertTag(SortedTags(SubSeq(tags, 1, Len(tags) - 1)), tags[Len(tags)])

\* signature_v1(item)[1]: the text that is hashed
SignatureV1(item) ==
    [kind |-> item.kind,
     gram_core |-> Slice(Bigrams(Tokens(item.summary)), 6),
     tag_core |-> Slice(SortedTags(item.tags), 5)]

\* fingerprint_v1(kind_v2, canonical_summary, tags_top)[1]
FingerprintV1(kind_v2, canonical_summary, tags_top) ==
    [kind_v2 |-> kind_v2,
     gram_core |-> Slice(Bigrams(Tokens(canonical_summary)), 6),
     tag_core |-> [k \in 1 .. Min(5, Len(tags_top)) |-> tags_top[k].key]]

\* ---- collections.Counter: a list of [key, n] in insertion order

CounterGet(c, key) ==
    LET hits == {k \in 1 .. Len(c) : c[k].key = key}
    IN  IF hits = {} THEN 0 ELSE c[CHOOSE k \in hits : TRUE].n

\* c[key] += n
CounterAdd(c, key, n) ==
    IF \E k \in 1 .. Len(c) : c[k].key = key
    THEN [k \in 1 .. Len(c) |->
            IF c[k].key = key THEN [key |-> key, n |-> c[k].n + n] ELSE c[k]]
    ELSE Append(c, [key |-> key, n |-> n])

RECURSIVE CounterUpdate(_, _)
\* c.update(d) for a mapping d
CounterUpdate(c, d) ==
    IF d = <<>> THEN c
    ELSE CounterUpdate(CounterAdd(c, Head(d).key, Head(d).n), Tail(d))

RECURSIVE CounterOf(_)
\* Counter(keys)
CounterOf(keys) ==
    IF keys = <<>> THEN <<>>
    ELSE CounterAdd(CounterOf(SubSeq(keys, 1, Len(keys) - 1)), keys[Len(keys)], 1)

RECURSIVE InsertByCount(_, _)
InsertByCount(sorted, e) ==
    IF sorted = <<>> THEN <<e>>
    ELSE IF Head(sorted).n >= e.n
         THEN <<Head(sorted)>> \o InsertByCount(Tail(sorted), e)
    ELSE <<e>> \o sorted

RECURSIVE SortByCount(_)
SortByCount(c) ==
    IF c = <<>> THEN <<>>
    ELSE InsertByCount(SortByCount(SubSeq(c, 1, Len(c) - 1)), c[Len(c)])

\* c.most_common(n): by count, descending; equal counts in insertion order
MostCommon(c, n) == SubSeq(SortByCount(c), 1, Min(Max(n, 0), Len(c)))

\* max(d, key=d.get): the first key with the largest count
MaxKey(c) ==
    c[CHOOSE k \in 1 .. Len(c) :
        /\ \A j \in 1 .. Len(c) : c[j].n <= c[k].n
        /\ \A j \in 1 .. k - 1 : c[j].n < c[k].n].key

RECURSIVE Flatten(_)
Flatten(lists) ==
    IF lists = <<>> THEN <<>> ELSE Head(lists) \o Flatten(Tail(lists))

\* _tier_for_group(max_sev, tag_counts, kind_counts)
TierForGroup(max_sev, tag_counts, kind_counts) ==
    IF CounterGet(tag_counts, "incident") > 0
       \/ SeverityRank(max_sev) >= SEVERITY_ORDER["high"]
    THEN [tier |-> 1,
          reasons |->
            (IF CounterGet(tag_counts, "incident") > 0 THEN <<"incident">> ELSE <<>>)
            \o (IF SeverityRank(max_sev) >= SEVERITY_ORDER["high"]
                THEN <<"severity:" \o max_sev>> ELSE <<>>)]
    ELSE IF CounterGet(kind_counts, "error") > 0
            \/ CounterGet(kind_counts, "user_frustration") > 0
            \/ SeverityRank(max_sev) = SEVERITY_ORDER["medium"]
    THEN [tier |-> 2,
          reasons |->
            (IF CounterGet(kind_counts, "error") > 0 THEN <<"kind:error">> ELSE <<>>)
            \o (IF CounterGet(kind_counts, "user_frustration") > 0
                THEN <<"kind:user_frustration">> ELSE <<>>)
            \o (IF SeverityRank(max_sev) = SEVERITY_ORDER["medium"]
                THEN <<"severity:medium">> ELSE <<>>)]
    ELSE [tier |-> 3, reasons |-> <<"default">>]

\* math.log1p(n) in thousandths, rounded (the order and the ties of the
\* scores built from it are those of the floating-point scores for n <= 10)
Log1pMilli(n) ==
    CASE n = 0 -> 0
      [] n = 1 -> 693
      [] n = 2 -> 1099
      [] n = 3 -> 1386
      [] n = 4 -> 1609
      [] n = 5 -> 1792
      [] n = 6 -> 1946
      [] n = 7 -> 2079
      [] n = 8 -> 2197
      [] n = 9 -> 2303
      [] OTHER -> 2398

\* _score_group(...), in thousandths
ScoreGroup(count_items, max_sev, tag_counts, kind_counts) ==
    Log1pMilli(count_items) + 1000 * SeverityRank(max_sev)
    + (IF CounterGet(tag_counts, "incident") > 0 THEN 2000 ELSE 0)
    + (IF CounterGet(kind_counts, "error") > 0 THEN 300 ELSE 0)
    + (IF CounterGet(kind_counts, "user_frustration") > 0 THEN 200 ELSE 0)

\* the terms of _classify_kind_v2 that occur in a word of the enumerated
\* summaries
TermsIn(w) ==
    CASE w \in {"timeout", "Timeout"} -> {"timeout"}
      [] OTHER -> {}

\* has(*terms) of _classify_kind_v2
Has(summary, terms) ==
    \E k \in 1 .. Len(summary) : TermsIn(summary[k]) \cap terms # {}

\* _classify_kind_v2(item)[0]
ClassifyKindV2(item) ==
    LET s == item.summary
        process ==
            (\E k \in 1 .. Len(item.tags) : item.tags[k] = "process")
            \/ Has(s, {"triage", "rollup", "pipeline", "logging", "metrics"})
    IN  CASE item.kind = "proactive_opportunity" -> "proactive_opportunity"
          [] item.kind = "user_delight" -> "user_delight"
          [] item.kind = "error" ->
                IF Has(s, {"timeout", "timed out", "rate limit", "usage limit",
                           "quota", "latency", "slow", "flaky", "unavailable",
                           "connection refused"})
                THEN "reliability_perf" ELSE "defect"
          [] item.kind = "user_frustration" -> "ux_friction"
          [] item.kind \in {"improvement_suggestion", "experiment_suggestion"} ->
                IF Has(s, {"eval", "evaluation", "benchmark", "ablation", "experiment"})
                THEN "process_tooling"
                ELSE IF Has(s, {"tool", "integration", "feature", "capability", "missing"})
                THEN "capability_gap"
                ELSE IF Has(s, {"clarity", "confus", "ux", "format", "explain", "prompt"})
                THEN "ux_friction"
                ELSE IF Has(s, {"timeout", "latency", "slow", "rate limit"})
                THEN "reliability_perf"
                ELSE IF Has(s, {"privacy", "pii", "safety", "policy", "refusal"})
                THEN "safety_compliance"
                ELSE IF process THEN "process_tooling"
                ELSE "ux_friction"
          [] OTHER -> IF process THEN "process_tooling" ELSE "ux_friction"

\* _sentiment(item)
Sentiment(item) ==
    IF item.kind = "user_frustration" THEN "frustrated"
    ELSE IF Has(item.summary, {"frustrat", "confus", "annoy", "upset", "not what i meant"})
    THEN "frustrated"
    ELSE "neutral"

\* sort key of rollups.sort: (tier, -score), compared as Python tuples
RollupKeyLEScoreOnly(a, b) == a.score >= b.score

RollupKeyLE(a, b) ==
    a.tier < b.tier \/ (a.tier = b.tier /\ a.score >= b.score)

RECURSIVE InsertRollup(_, _)
InsertRollup(sorted, r) ==
    IF sorted = <<>> THEN <<r>>
    ELSE IF RollupKeyLE(Head(sorted), r)
         THEN <<Head(sorted)>> \o InsertRollup(Tail(sorted), r)
    ELSE <<r>> \o sorted

RECURSIVE SortRollups(_)
\* rollups.sort(key=lambda r: (tier, -score)): a stable sort
SortRollups(rs) ==
    IF rs = <<>> THEN <<>>
    ELSE InsertRollup(SortRollups(SubSeq(rs, 1, Len(rs) - 1)), rs[Len(rs)])

RECURSIVE Distinct(_)
\* the keys of a dict filled in the order of s: first occurrences, in order
Distinct(s) ==
    IF s = <<>> THEN <<>>
    ELSE LET before == Distinct(SubSeq(s, 1, Len(s) - 1))
             x == s[Len(s)]
         IN  IF \E k \in 1 .. Len(before) : before[k] = x THEN before
             ELSE Append(before, x)

RECURSIVE MaxSevLoop(_, _, _)
\* the max_sev / max_sev_rank loop over the severities of a group
MaxSevLoop(sevs, max_sev, max_sev_rank) ==
    IF sevs = <<>> THEN max_sev
    ELSE IF SeverityRank(Head(sevs)) > max_sev_rank
         THEN MaxSevLoop(Tail(sevs), Head(sevs), SeverityRank(Head(sevs)))
    ELSE MaxSevLoop(Tail(sevs), max_sev, max_sev_rank)

\* one rollup of rollup_signals: the body of the loop over grouped.items()
RollupOfGroup(sig_id, group, cfg) ==
    LET count_items == Len(group)
        sessions == {group[k].session_id : k \in 1 .. Len(group)} \ {""}
        kind_counts == CounterOf([k \in 1 .. Len(group) |-> group[k].kind])
        kind_v2_counts ==
            CounterOf([k \in 1 .. Len(group) |-> ClassifyKindV2(group[k])])
        tag_counts ==
            CounterOf(Flatten([k \in 1 .. Len(group) |-> group[k].tags]))
        max_sev ==
            MaxSevLoop([k \in 1 .. Len(group) |-> group[k].severity], "unknown", -1)
        with_summary == SelectSeq(group, LAMBDA g : g.summary # <<>>)
        summary_counts ==
            CounterOf([k \in 1 .. Len(with_summary) |->
                         Redact(with_summary[k].summary)])
        canonical_summary ==
            IF summary_counts = <<>> THEN <<>>
            ELSE MostCommon(summary_counts, 1)[1].key
        tg == TierForGroup(max_sev, tag_counts, kind_counts)
        tags_top == MostCommon(tag_counts, cfg.max_tags)
        kind_v2_primary == MostCommon(kind_v2_counts, 1)[1].key
        taken == Slice(group, cfg.max_samples)
    IN  [signature_id |-> sig_id,
         count_items |-> count_items,
         count_sessions |-> Cardinality(sessions),
         kind_counts |-> kind_counts,
         kind_v2_counts |-> kind_v2_counts,
         max_severity |-> max_sev,
         tier |-> tg.tier,
         tier_reasons |-> tg.reasons,
         score |-> ScoreGroup(count_items, max_sev, tag_counts, kind_counts),
         tags_top |-> tags_top,
         canonical_summary |-> canonical_summary,
         fingerprint_id |->
            FingerprintV1(kind_v2_primary, canonical_summary, tags_top),
         sample_refs |->
            [k \in 1 .. Len(taken) |->
                [item_id |-> taken[k].item_id,
                 session_id |-> taken[k].session_id]],
         sentiment |->
            MostCommon(CounterOf([k \in 1 .. Len(group) |-> Sentiment(group[k])]),
                       1)[1].key,
         merged_from |-> <<>>]

\* rollup_signals before the sort: group by signature id, then one rollup
\* per group, in the order the signatures first occur
GroupedRollups(its, cfg) ==
    LET sigs == Distinct([k \in 1 .. Len(its) |-> SignatureV1(its[k])])
    IN  [g \in 1 .. Len(sigs) |->
            RollupOfGroup(sigs[g],
                          SelectSeq(its, LAMBDA it : SignatureV1(it) = sigs[g]),
                          cfg)]

\* ---- Cluster Merger

\* _jaccard(a, b) as the fraction <<numerator, denominator>>
Jaccard(a, b) ==
    IF a = {} \/ b = {} THEN <<0, 1>>
    ELSE IF Cardinality(a \cup b) = 0 THEN <<0, 1>>
    ELSE <<Cardinality(a \cap b), Cardinality(a \cup b)>>

\* sim >= threshold, the threshold in hundredths
SimAtLeast(sim, pct) == sim[1] * 100 >= pct * sim[2]

\* set(_tokens(r["canonical_summary"]))
TokenSet(r) ==
    LET t == Tokens(r.canonical_summary) IN {t[k] : k \in 1 .. Len(t)}

KindV2PrimaryOneBlock(r) == "ux_friction"

\* max(kind_v2_counts, key=kind_v2_counts.get)
KindV2Primary(r) ==
    IF r.kind_v2_counts = <<>> THEN "ux_friction" ELSE MaxKey(r.kind_v2_counts)

RECURSIVE Find(_, _)
\* find(x) with its path halving: the root and the parent list it leaves
\* (indices are those of the code plus one)
Find(parent, x) ==
    IF parent[x] = x THEN [root |-> x, parent |-> parent]
    ELSE LET halved == [parent EXCEPT ![x] = parent[parent[x]]]
         IN  Find(halved, halved[x])

\* union(a, b) hanging b itself under a, whatever their roots
UnionNoFind(parent, a, b) == [parent EXCEPT ![b] = a]

\* union(a, b)
Union(parent, a, b) ==
    LET fa == Find(parent, a)
        fb == Find(fa.parent, b)
    IN  IF fa.root # fb.root
        THEN [fb.parent EXCEPT ![fb.root] = fa.root]
        ELSE fb.parent

\* _llm_merge_decision(llm, a, b) once llm.complete has returned: merge only
\* on the decision "merge" with a numeric confidence of at least 0.7
\* (confidence in hundredths)
LlmMergeDecision(llm) ==
    /\ llm.decision = "merge"
    /\ llm.confidence_isnum
    /\ llm.confidence >= 70

RECURSIVE PairLoop(_, _, _, _, _, _, _)
\* the two nested loops over one block: i and j are positions in idxs,
\* pairs the counter checked against cfg.max_pairs_per_block; the result is
\* the parent list, or raised when llm.complete raised
PairLoop(rs, cfg, idxs, i, j, pairs, parent) ==
    IF i > Len(idxs) THEN [raised |-> FALSE, parent |-> parent]
    ELSE IF j > Len(idxs)
    THEN IF pairs > cfg.max_pairs_per_block
         THEN [raised |-> FALSE, parent |-> parent]
         ELSE PairLoop(rs, cfg, idxs, i + 1, i + 2, pairs, parent)
    ELSE IF pairs + 1 > cfg.max_pairs_per_block
    THEN [raised |-> FALSE, parent |-> parent]
    ELSE LET sim == Jaccard(TokenSet(rs[idxs[i]]), TokenSet(rs[idxs[j]]))
             joined == Union(parent, idxs[i], idxs[j])
         IN  IF SimAtLeast(sim, cfg.auto_jaccard)
             THEN PairLoop(rs, cfg, idxs, i, j + 1, pairs + 1, joined)
             ELSE IF cfg.use_llm /\ cfg.llm.present
                     /\ SimAtLeast(sim, cfg.llm_jaccard)
             THEN IF cfg.llm.raises THEN [raised |-> TRUE, parent |-> parent]
                  ELSE IF LlmMergeDecision(cfg.llm)
                  THEN PairLoop(rs, cfg, idxs, i, j + 1, pairs + 1, joined)
                  ELSE PairLoop(rs, cfg, idxs, i, j + 1, pairs + 1, parent)
             ELSE PairLoop(rs, cfg, idxs, i, j + 1, pairs + 1, parent)

RECURSIVE BlockLoop(_, _, _, _)
\* for kind_v2, idxs in blocks.items()
BlockLoop(rs, cfg, kinds, parent) ==
    IF kinds = <<>> THEN [raised |-> FALSE, parent |-> parent]
    ELSE LET idxs == SelectSeq([k \in 1 .. Len(rs) |-> k],
                               LAMBDA k : KindV2Primary(rs[k]) = Head(kinds))
             after == IF Len(idxs) < 2 THEN [raised |-> FALSE, parent |-> parent]
                      ELSE PairLoop(rs, cfg, idxs, 1, 2, 0, parent)
         IN  IF after.raised THEN after
             ELSE BlockLoop(rs, cfg, Tail(kinds), after.parent)

\* sum(m["count_items"] for m in members) taken from the canonical member only
SumCountItemsFirstOnly(members) ==
    IF members = <<>> THEN 0 ELSE Head(members).count_items

RECURSIVE SumCountItems(_)
\* sum(m["count_items"] for m in members)
SumCountItems(members) ==
    IF members = <<>> THEN 0
    ELSE Head(members).count_items + SumCountItems(Tail(members))

RECURSIVE SumCountSessions(_)
\* sum(m["count_sessions"] for m in members)
SumCountSessions(members) ==
    IF members = <<>> THEN 0
    ELSE Head(members).count_sessions + SumCountSessions(Tail(members))

RECURSIVE MergeCounters(_, _)
\* the Counter.update calls of the loop over members: lists the tables to add
MergeCounters(c, tables) ==
    IF tables = <<>> THEN c
    ELSE MergeCounters(CounterUpdate(c, Head(tables)), Tail(tables))

\* max(members, key=count_items): the first member with the largest count
CanonicalMember(members) ==
    members[CHOOSE k \in 1 .. Len(members) :
        /\ \A j \in 1 .. Len(members) :
              members[j].count_items <= members[k].count_items
        /\ \A j \in 1 .. k - 1 :
              members[j].count_items < members[k].count_items]

\* the rollup _merge_groups builds for one group of two or more members
MergedRollup(members) ==
    LET n == Len(members)
        kind_counts == MergeCounters(<<>>, [k \in 1 .. n |-> members[k].kind_counts])
        kind_v2_counts ==
            MergeCounters(<<>>, [k \in 1 .. n |-> members[k].kind_v2_counts])
        tag_counts == MergeCounters(<<>>, [k \in 1 .. n |-> members[k].tags_top])
        max_sev ==
            MaxSevLoop([k \in 1 .. n |-> members[k].max_severity], "unknown", -1)
        sentiment_counts == CounterOf([k \in 1 .. n |-> members[k].sentiment])
        canonical == CanonicalMember(members)
        count_items == SumCountItems(members)
        tg == TierForGroup(max_sev, tag_counts, kind_counts)
        tags_top == MostCommon(tag_counts, 8)
        kind_v2_primary ==
            IF kind_v2_counts = <<>> THEN "ux_friction"
            ELSE MostCommon(kind_v2_counts, 1)[1].key
    IN  [canonical EXCEPT
            !.count_items = count_items,
            !.count_sessions = SumCountSessions(members),
            !.kind_counts = kind_counts,
            !.kind_v2_counts = kind_v2_counts,
            !.max_severity = max_sev,
            !.tier = tg.tier,
            !.tier_reasons = tg.reasons,
            !.score = ScoreGroup(count_items, max_sev, tag_counts, kind_counts),
            !.tags_top = tags_top,
            !.fingerprint_id =
                FingerprintV1(kind_v2_primary, canonical.canonical_summary, tags_top),
            !.sentiment = MostCommon(sentiment_counts, 1)[1].key,
            !.merged_from = [k \in 1 .. n |-> members[k].signature_id]]

\* _merge_groups(rollups, groups)
MergeGroups(groups) ==
    SortRollups([g \in 1 .. Len(groups) |->
                    IF Len(groups[g]) = 1 THEN groups[g][1]
                    ELSE MergedRollup(groups[g])])

\* the parent list after the loop over the blocks
MergeParents(rs, cfg) ==
    BlockLoop(rs, cfg,
              Distinct([k \in 1 .. Len(rs) |-> KindV2Primary(rs[k])]),
              [k \in 1 .. Len(rs) |-> k])

\* groups[find(idx)].append(r): the groups in the order their roots first occur
GroupsOf(rs, parent) ==
    LET root == [k \in 1 .. Len(rs) |-> Find(parent, k).root]
        roots == Distinct(root)
    IN  [g \in 1 .. Len(roots) |->
            LET idxs == SelectSeq([k \in 1 .. Len(rs) |-> k],
                                  LAMBDA k : root[k] = roots[g])
            IN  [m \in 1 .. Len(idxs) |-> rs[idxs[m]]]]

\* _merge_rollups_jaccard(rollups, cfg, llm), the llm being cfg.llm: the
\* merged rollups, or raised
MergeRollupsJaccard(rs, cfg) ==
    IF rs = <<>> THEN [raised |-> FALSE, rollups |-> rs]
    ELSE LET loop == MergeParents(rs, cfg)
         IN  IF loop.raised THEN [raised |-> TRUE, rollups |-> <<>>]
             ELSE [raised |-> FALSE,
                   rollups |-> MergeGroups(GroupsOf(rs, loop.parent))]

\* MergeConfig.embed_k
DefaultEmbedK == 8

\* MergeConfig.embed_similarity, in hundredths
DefaultEmbedSimilarity == 88

\* _dot of two equal unit vectors, in hundredths
SameVectorSimilarity == 100

\* the rows of the block of kind_v2, in list order
BlockIdxs(rs, kind_v2) ==
    SelectSeq([k \in 1 .. Len(rs) |-> k], LAMBDA k : KindV2Primary(rs[k]) = kind_v2)

\* k = min(max(cfg.embed_k, 1) + 1, len(idxs))
EmbedK(idxs) == Min(Max(DefaultEmbedK, 1) + 1, Len(idxs))

RECURSIVE KnnUpTo(_, _)
\* the answers the vector index may give to the queries of rows 1 .. m: for
\* a row of a block of two or more, any EmbedK rows of the table (all
\* vectors are equal, so every row is as near as any other); a row of a
\* smaller block is never queried
KnnUpTo(rs, m) ==
    IF m = 0 THEN {<<>>}
    ELSE LET idxs == BlockIdxs(rs, KindV2Primary(rs[m]))
             answers ==
                IF Len(idxs) < 2 THEN {{}}
                ELSE {rows \in SUBSET (1 .. Len(rs)) :
                        Cardinality(rows) = Min(EmbedK(idxs), Len(rs))}
         IN  {Append(f, rows) : f \in KnnUpTo(rs, m - 1), rows \in answers}

\* the answers of the vector index for one call; none unless the embeddings
\* method runs over vectors with a dimension
KnnAnswers(rs, cfg) ==
    IF cfg.merge_enabled /\ cfg.method = "embeddings" /\ cfg.embed = "same"
    THEN KnnUpTo(rs, Len(rs))
    ELSE {<<>>}

RECURSIVE EmbedRowLoop(_, _, _, _, _, _, _)
\* `for rowid, _dist in rows` for the query of row idx: the parent list and
\* the pair counter it leaves
EmbedRowLoop(rs, cfg, kind_v2, idx, rows, pairs, parent) ==
    IF rows = <<>> THEN [pairs |-> pairs, parent |-> parent]
    ELSE LET j == Head(rows)
         IN  IF j <= idx \/ KindV2Primary(rs[j]) # kind_v2
             THEN EmbedRowLoop(rs, cfg, kind_v2, idx, Tail(rows), pairs, parent)
             ELSE IF pairs + 1 > cfg.max_pairs_per_block
             THEN [pairs |-> pairs + 1, parent |-> parent]
             ELSE EmbedRowLoop(rs, cfg, kind_v2, idx, Tail(rows), pairs + 1,
                      IF SameVectorSimilarity >= DefaultEmbedSimilarity
                      THEN Union(parent, idx, j) ELSE parent)

RECURSIVE EmbedIdxLoop(_, _, _, _, _, _, _)
\* `for idx in idxs` of one block; answers[idx] are the rows of the query
EmbedIdxLoop(rs, cfg, kind_v2, idxs, answers, pairs, parent) ==
    IF idxs = <<>> THEN parent
    ELSE LET idx == Head(idxs)
             rows == SelectSeq([k \in 1 .. Len(rs) |-> k],
                               LAMBDA k : k \in answers[idx])
             after == EmbedRowLoop(rs, cfg, kind_v2, idx, rows, pairs, parent)
         IN  IF after.pairs > cfg.max_pairs_per_block THEN after.parent
             ELSE EmbedIdxLoop(rs, cfg, kind_v2, Tail(idxs), answers,
                               after.pairs, after.parent)

RECURSIVE EmbedBlockLoop(_, _, _, _, _)
\* `for kind_v2, idxs in blocks.items()` of _merge_rollups_embeddings
EmbedBlockLoop(rs, cfg, kinds, answers, parent) ==
    IF kinds = <<>> THEN parent
    ELSE LET idxs == BlockIdxs(rs, Head(kinds))
         IN  EmbedBlockLoop(rs, cfg, Tail(kinds), answers,
                 IF Len(idxs) < 2 THEN parent
                 ELSE EmbedIdxLoop(rs, cfg, Head(kinds), idxs, answers, 0, parent))

\* _merge_rollups_embeddings(rollups, cfg, llm) for an embedding service that
\* fails (openai_embeddings raises), answers with vectors of no dimension,
\* or gives every text the same vector; answers are the vector index's
\* replies to the nearest-neighbour queries
MergeRollupsEmbeddings(rs, cfg, answers) ==
    IF rs = <<>> THEN [raised |-> FALSE, rollups |-> rs]
    ELSE IF cfg.embed = "raise" THEN [raised |-> TRUE, rollups |-> <<>>]
    ELSE IF cfg.embed = "empty" THEN [raised |-> FALSE, rollups |-> rs]
    ELSE LET parent ==
                EmbedBlockLoop(rs, cfg,
                    Distinct([k \in 1 .. Len(rs) |-> KindV2Primary(rs[k])]),
                    answers, [k \in 1 .. Len(rs) |-> k])
         IN  [raised |-> FALSE, rollups |-> MergeGroups(GroupsOf(rs, parent))]

\* rollup_signals(items, cfg, merge_cfg, llm=None): the summary counts and
\* the rollups
RollupSignalsResult(its, cfg, answers) ==
    LET sorted == SortRollups(GroupedRollups(its, cfg))
        out == IF cfg.merge_enabled
               THEN IF cfg.method = "embeddings"
                    THEN MergeRollupsEmbeddings(sorted, cfg, answers)
                    ELSE MergeRollupsJaccard(sorted, cfg)
               ELSE [raised |-> FALSE, rollups |-> sorted]
    IN  [raised |-> out.raised,
         summary |-> [items |-> Len(its), groups |-> Len(out.rollups)],
         rollups |-> out.rollups]

\* ---- the enumerated inputs of rollup_signals

S1 == <<"Connection", "timeout", "contacting", "service", "A">>

S2 == <<"Timeout", "connecting", "to", "service", "A">>

S3 == <<"timeout", "contacting", "service">>

S4 == <<"timeout", "contacting", "bob@example.com">>

S5 == <<"disk", "full">>

\* a signal as the Signal Extractor writes it, without its item_id
BaseSignal ==
    [kind |-> "error", summary |-> S1, severity |-> "unknown",
     tags |-> <<"network">>, session_id |-> "s1"]

\* the base signal with one or two fields changed
SignalPool ==
    <<BaseSignal,
      [BaseSignal EXCEPT !.summary = S2],
      [BaseSignal EXCEPT !.summary = S3],
      [BaseSignal EXCEPT !.summary = S4],
      [BaseSignal EXCEPT !.tags = <<"network", "incident">>],
      [BaseSignal EXCEPT !.severity = "medium", !.session_id = "s2"],
      [BaseSignal EXCEPT !.severity = "high"],
      [BaseSignal EXCEPT !.kind = "other", !.tags = <<"incident">>],
      [BaseSignal EXCEPT !.kind = "user_frustration", !.summary = S3, !.tags = <<>>],
      [BaseSignal EXCEPT !.kind = "other", !.summary = S5, !.tags = <<>>],
      [BaseSignal EXCEPT !.tags = <<"incident">>]>>

\* the pool's signals, each with an item_id of its own
PoolItems ==
    {[item_id |-> k, kind |-> SignalPool[k].kind,
      summary |-> SignalPool[k].summary, severity |-> SignalPool[k].severity,
      tags |-> SignalPool[k].tags, session_id |-> SignalPool[k].session_id] :
        k \in 1 .. Len(SignalPool)}

\* the lists of at most n signals
ItemLists(n) == UNION {[1 .. m -> PoolItems] : m \in 0 .. n}

DefaultMaxSamples == 3

DefaultMaxTags == 8

\* MergeConfig.auto_jaccard, in hundredths
DefaultAutoJaccard == 62

DefaultMaxPairsPerBlock == 5000

\* MergeConfig.llm_jaccard, in hundredths
DefaultLlmJaccard == 50

\* llm=None
NoLlm ==
    [present |-> FALSE, raises |-> FALSE, decision |-> "",
     confidence_isnum |-> FALSE, confidence |-> 0]

\* an oracle client whose complete() raises (HTTP error, timeout)
FailingLlm == [NoLlm EXCEPT !.present = TRUE, !.raises = TRUE]

\* an oracle client that answers every pair with the same decision and
\* confidence (in hundredths)
AnsweringLlm(decision, confidence) ==
    [present |-> TRUE, raises |-> FALSE, decision |-> decision,
     confidence_isnum |-> TRUE, confidence |-> confidence]

\* an oracle client whose reply holds no JSON object
MalformedLlm == [NoLlm EXCEPT !.present = TRUE]

\* RollupConfig() and MergeConfig() as the command line builds them, with
\* the services handed to the call: llm, and the behaviour of the embedding
\* service ("empty": vectors of no dimension)
DefaultRollupConfig ==
    [max_samples |-> DefaultMaxSamples, max_tags |-> DefaultMaxTags,
     merge_enabled |-> FALSE, method |-> "jaccard",
     auto_jaccard |-> DefaultAutoJaccard, llm_jaccard |-> DefaultLlmJaccard,
     max_pairs_per_block |-> DefaultMaxPairsPerBlock,
     use_llm |-> FALSE, llm |-> NoLlm, embed |-> "empty"]

\* the enumerated configurations: the defaults, the merger switched on, and
\* with it a lower threshold, a pair ceiling of one, a tag limit of one, an
\* oracle, the embeddings method ("same": every text gets the same vector)
RollupConfigs ==
    LET merging == [DefaultRollupConfig EXCEPT !.merge_enabled = TRUE]
        asking == [merging EXCEPT !.use_llm = TRUE]
    IN  {DefaultRollupConfig,
         [DefaultRollupConfig EXCEPT !.max_samples = 1],
         [DefaultRollupConfig EXCEPT !.max_tags = 1],
         merging,
         [merging EXCEPT !.auto_jaccard = 50],
         [merging EXCEPT !.auto_jaccard = 50, !.max_pairs_per_block = 1],
         [merging EXCEPT !.max_tags = 1],
         asking,
         [asking EXCEPT !.llm = FailingLlm],
         [asking EXCEPT !.llm = MalformedLlm],
         [asking EXCEPT !.llm = AnsweringLlm("merge", 90)],
         [asking EXCEPT !.llm = AnsweringLlm("merge", 50)],
         [asking EXCEPT !.llm = AnsweringLlm("separate", 90)],
         [merging EXCEPT !.method = "embeddings"],
         [merging EXCEPT !.method = "embeddings", !.embed = "raise"],
         [merging EXCEPT !.method = "embeddings", !.embed = "same"]}

InitRollup ==
    /\ AnalyzerIdle
    /\ MergeIdle
    /\ ChunkIdle
    /\ MineIdle
    /\ RunIdle
    /\ TicketIdle
    /\ items \in ItemLists(MaxItems)
    /\ rcfg \in RollupConfigs
    /\ knn \in KnnAnswers(SortRollups(GroupedRollups(items, rcfg)), rcfg)
    /\ rsummary = <<>>
    /\ rollups = <<>>
    /\ rollups2 = <<>>
    /\ rstate = "input"

\* one call of rollup_signals(items=items, cfg=..., merge_cfg=..., llm=...):
\* it returns the summary and the rollups, or an exception of a merge
\* service leaves it
RollupSignals ==
    /\ rstate = "input"
    /\ LET res == RollupSignalsResult(items, rcfg, knn)
       IN  IF res.raised
           THEN /\ rstate' = "raised"
                /\ UNCHANGED <<rsummary, rollups>>
           ELSE /\ rsummary' = <<res.summary>>
                /\ rollups' = res.rollups
                /\ rstate' = "rolled"
    /\ UNCHANGED <<items, rcfg, knn, rollups2, chunkVars, mineVars, runVars, ticketVars, mergeVars,
                   analyzerVars>>

\* the lexical merger's output fed back into _merge_rollups_jaccard with the
\* same MergeConfig and no oracle
MergeAgain ==
    /\ rstate = "rolled"
    /\ rcfg.merge_enabled
    /\ rcfg.method = "jaccard"
    /\ ~(rcfg.use_llm /\ rcfg.llm.present)
    /\ rollups2' = MergeRollupsJaccard(rollups, rcfg).rollups
    /\ rstate' = "remerged"
    /\ UNCHANGED <<items, rcfg, knn, rsummary, rollups, chunkVars, mineVars, runVars, ticketVars, mergeVars,
                   analyzerVars>>

NextRollup == RollupSignals \/ MergeAgain

SpecRollup == InitRollup /\ [][NextRollup]_vars

\* ---- properties of the Rollup Aggregator and the Cluster Merger

\* rollup_signals has returned its summary and rollups
RollupReturned == rstate \in {"rolled", "remerged"}

\* the signature ids a rollup stands for
Constituents(r) ==
    IF r.merged_from = <<>> THEN {r.signature_id}
    ELSE {r.merged_from[k] : k \in 1 .. Len(r.merged_from)}

\* the input signals a rollup stands for
GroupItems(r) ==
    {k \in 1 .. Len(items) : SignatureV1(items[k]) \in Constituents(r)}

GroupHasIncident(r) ==
    \E k \in GroupItems(r) : \E t \in 1 .. Len(items[k].tags) :
        items[k].tags[t] = "incident"

GroupHasKind(r, kind) == \E k \in GroupItems(r) : items[k].kind = kind

GroupHasSeverity(r, sevs) == \E k \in GroupItems(r) : items[k].severity \in sevs

\* the tier the group's facts call for
ExpectedTier(r) ==
    IF GroupHasIncident(r) \/ GroupHasSeverity(r, {"high", "critical"}) THEN 1
    ELSE IF GroupHasKind(r, "error") \/ GroupHasKind(r, "user_frustration")
            \/ GroupHasSeverity(r, {"medium"}) THEN 2
    ELSE 3

\* the facts that trigger that tier
ExpectedReasons(r) ==
    IF ExpectedTier(r) = 1
    THEN (IF GroupHasIncident(r) THEN {"incident"} ELSE {})
         \cup (IF GroupHasSeverity(r, {"critical"}) THEN {"severity:critical"}
               ELSE IF GroupHasSeverity(r, {"high"}) THEN {"severity:high"}
               ELSE {})
    ELSE IF ExpectedTier(r) = 2
    THEN (IF GroupHasKind(r, "error") THEN {"kind:error"} ELSE {})
         \cup (IF GroupHasKind(r, "user_frustration")
               THEN {"kind:user_frustration"} ELSE {})
         \cup (IF GroupHasSeverity(r, {"medium"}) THEN {"severity:medium"} ELSE {})
    ELSE {"default"}

\* C6: every rollup rollup_signals returns has tier 1 exactly when its group
\* carries an incident tag or a high or critical severity, else tier 2
\* exactly when the group holds an error or user_frustration signal or a
\* medium severity, else tier 3; and tier_reasons lists exactly those facts
C6_TierMatchesGroup ==
    RollupReturned =>
        \A k \in 1 .. Len(rollups) :
            /\ rollups[k].tier = ExpectedTier(rollups[k])
            /\ {rollups[k].tier_reasons[j] :
                    j \in 1 .. Len(rollups[k].tier_reasons)}
               = ExpectedReasons(rollups[k])

\* C22: every returned rollup, merged or not, whose group holds a signal
\* carrying the "incident" tag has tier 1 with "incident" among its
\* tier_reasons
C22_IncidentIsTierOne ==
    RollupReturned =>
        \A k \in 1 .. Len(rollups) :
            GroupHasIncident(rollups[k])
            => /\ rollups[k].tier = 1
               /\ \E j \in 1 .. Len(rollups[k].tier_reasons) :
                     rollups[k].tier_reasons[j] = "incident"

\* the input signals a rollup stands for, in input order
GroupSignals(r) ==
    SelectSeq(items, LAMBDA it : SignatureV1(it) \in Constituents(r))

\* what the aggregator computes directly over the signals of a rollup
DirectRollup(r) == RollupOfGroup(r.signature_id, GroupSignals(r), rcfg)

\* a frequency table as a dict: its entries without their order
AsDict(c) == {c[k] : k \in 1 .. Len(c)}

\* C23: each merged rollup has the item count, distinct-session count, kind
\* counts, maximum severity, tier and score that the aggregator computes
\* over the union of the signals of its constituents
C23_MergeEqualsReaggregation ==
    RollupReturned =>
        \A k \in 1 .. Len(rollups) :
            rollups[k].merged_from # <<>>
            => LET r == rollups[k]
                   d == DirectRollup(r)
               IN  /\ r.count_items = d.count_items
                   /\ r.count_sessions = d.count_sessions
                   /\ AsDict(r.kind_counts) = AsDict(d.kind_counts)
                   /\ AsDict(r.kind_v2_counts) = AsDict(d.kind_v2_counts)
                   /\ r.max_severity = d.max_severity
                   /\ r.tier = d.tier
                   /\ r.score = d.score

\* the rollups of the aggregator, as they enter the merge pass
PreMerge == SortRollups(GroupedRollups(items, rcfg))

\* the most frequent secondary kind of a rollup, the first one on a tie
DominantKindV2(r) == MostCommon(r.kind_v2_counts, 1)[1].key

\* C24: the merger joins no rollups of different blocks: every constituent
\* of a merged rollup has the same dominant secondary kind, and that kind is
\* the merged rollup's own dominant secondary kind
C24_NoMergeAcrossBlocks ==
    RollupReturned =>
        \A k \in 1 .. Len(rollups) :
            rollups[k].merged_from # <<>>
            => \A p \in 1 .. Len(PreMerge) :
                  PreMerge[p].signature_id \in Constituents(rollups[k])
                  => DominantKindV2(PreMerge[p]) = DominantKindV2(rollups[k])

\* the call returned a merged rollup next to a rollup of another block whose
\* summary has the very same tokens
C24_Witness ==
    /\ RollupReturned
    /\ \E k, q \in 1 .. Len(rollups) :
          /\ rollups[k].merged_from # <<>>
          /\ DominantKindV2(rollups[q]) # DominantKindV2(rollups[k])
          /\ TokenSet(rollups[q]) = TokenSet(rollups[k])

\* the fingerprint ids of a list of rollups
FingerprintIds(rs) == {rs[k].fingerprint_id : k \in 1 .. Len(rs)}

\* the signals with the tags of each one in the opposite order
TagsReversed(its) ==
    [k \in 1 .. Len(its) |-> [its[k] EXCEPT !.tags = Reversed(its[k].tags)]]

\* the rollups of the same call over other signals, when it returns
RollupsOver(its) ==
    LET res == RollupSignalsResult(its, rcfg, knn)
    IN  IF res.raised THEN <<>> ELSE <<res.rollups>>

\* C27: the fingerprint ids rollup_signals produces do not depend on the
\* order of the input signals nor on the order of the tags inside a signal:
\* the input list in the opposite order, and the same list with the tags of
\* each signal in the opposite order, give the same set of fingerprint ids
C27_FingerprintsOrderFree ==
    (RollupReturned /\ rcfg.method = "jaccard")
    => \A its \in {Reversed(items), TagsReversed(items)} :
          RollupsOver(its) # <<>>
          => FingerprintIds(RollupsOver(its)[1]) = FingerprintIds(rollups)

\* C7: the returned list is sorted by tier ascending and, within a tier, by
\* score descending, with or without the merge pass
C7_SortedByTierThenScore ==
    RollupReturned =>
        \A i \in 1 .. Len(rollups) : \A j \in i + 1 .. Len(rollups) :
            \/ rollups[i].tier < rollups[j].tier
            \/ (rollups[i].tier = rollups[j].tier
                /\ rollups[i].score >= rollups[j].score)

\* a merged tier-2 rollup placed after a tier-1 rollup of a smaller score
C7_Witness ==
    /\ rstate = "rolled"
    /\ rcfg.merge_enabled
    /\ \E i \in 1 .. Len(rollups) : \E j \in i + 1 .. Len(rollups) :
          /\ rollups[i].tier < rollups[j].tier
          /\ rollups[i].score < rollups[j].score
          /\ rollups[j].merged_from # <<>>

RECURSIVE TotalCountItems(_)
TotalCountItems(rs) ==
    IF rs = <<>> THEN 0
    ELSE Head(rs).count_items + TotalCountItems(Tail(rs))

\* C8: the count_items of the returned rollups add up to the number of input
\* signals, merged or not, and summary.counts.items is that number
C8_EveryItemCountedOnce ==
    RollupReturned =>
        /\ TotalCountItems(rollups) = Len(items)
        /\ rsummary[1].items = Len(items)

\* a merge pass that joined rollups holding three signals between them
C8_Witness ==
    /\ rstate = "rolled"
    /\ rcfg.merge_enabled
    /\ Len(items) = 3
    /\ \E k \in 1 .. Len(rollups) :
          /\ Len(rollups[k].merged_from) = 2
          /\ rollups[k].count_items = 3

\* C9: the merger's output fed back into the merger, with the same
\* thresholds and pair ceiling, comes back with the same number of rollups
\* and the same constituents in each
C9_SecondPassMergesNothing ==
    rstate = "remerged" =>
        /\ Len(rollups2) = Len(rollups)
        /\ \A k \in 1 .. Min(Len(rollups), Len(rollups2)) :
              Constituents(rollups2[k]) = Constituents(rollups[k])

\* the two signals of the scenario: same session, both tagged network
TimeoutScenario ==
    /\ Len(items) = 2
    /\ {items[1].summary, items[2].summary} = {S1, S2}
    /\ \A k \in 1 .. 2 :
          /\ items[k].kind = "error"
          /\ items[k].tags = <<"network">>
          /\ items[k].session_id = "s1"
    /\ rcfg.merge_enabled
    /\ rcfg.method = "jaccard"
    /\ rcfg.auto_jaccard = DefaultAutoJaccard

\* C10: the two timeout signals are merged at the threshold 0.62 into one
\* rollup with count_items = 2
C10_TimeoutSignalsMerged ==
    (RollupReturned /\ TimeoutScenario) =>
        /\ Len(rollups) = 1
        /\ rollups[1].count_items = 2

\* ------------------------------------------- limits of the returned signals

\* C11: every returned signal has a summary of at most max_summary_chars
\* characters and at most max_evidence_per_item evidence entries
C11_WithinLimits ==
    \A sig \in SignalSet :
        /\ Len(sig.summary) <= mcfg.max_summary_chars
        /\ Len(sig.evidence) <= mcfg.max_evidence_per_item

\* ================================== a run of mine_signals over session files

\* session_id = "sha256:" + hash of the relative path of the k-th file
SessionIdOf(k) == "sha256:session-" \o ToString(k)

\* f"{session_id}/{chunk_id}", the chunk_id being "chunk:" and the 0-based
\* index of the chunk
ChunkIdOf(k, c) == SessionIdOf(k) \o "/chunk:" \o ToString(c - 1)

\* the digest of the view of event i: every view of a file has its own text
RunViewText(i) == [k \in 1 .. i + 1 |-> "a"]

\* the views of the c-th chunk of a file: a file cut into n chunks has n + 1
\* views and was cut with chunk_events = 2 and chunk_overlap = 1, so chunk c
\* holds the views c - 1 and c and shares view c with the next chunk
RunChunkViews(c) ==
    <<[i |-> c - 1, text |-> RunViewText(c - 1)], [i |-> c, text |-> RunViewText(c)]>>

\* a session file: unreadable, or readable and cut into 0 .. MaxFileChunks
\* chunks
SessionFiles ==
    {[readable |-> FALSE, chunks |-> 0]}
    \cup {[readable |-> TRUE, chunks |-> n] : n \in 0 .. MaxFileChunks}

\* the session files a run selects
RunFiles == UNION {[1 .. n -> SessionFiles] : n \in 0 .. MaxFiles}

\* what llm.complete does for one chunk: it raises (HTTP error, timeout), or
\* it returns a reply, malformed (no candidate) or holding one candidate
\* that quotes the first or the second view of the chunk
OracleOutcomes(vs) ==
    {[raised |-> TRUE, reply |-> <<>>],
     [raised |-> FALSE, reply |-> <<>>],
     [raised |-> FALSE, reply |-> <<BaseItem(vs)>>],
     [raised |-> FALSE,
      reply |-> <<[BaseItem(vs) EXCEPT
                     !.evidence = <<[event_i |-> vs[2].i, quote |-> vs[2].text]>>]>>]}

InitRun ==
    /\ AnalyzerIdle
    /\ MergeIdle
    /\ ChunkIdle
    /\ MineIdle
    /\ RollupIdle
    /\ TicketIdle
    /\ files \in RunFiles
    /\ use_llm \in BOOLEAN
    /\ file_idx = 1
    /\ chunk_idx = 1
    /\ session_items = <<>>
    /\ run_items = <<>>
    /\ run_pc = "files"
    /\ run_error = "none"
    /\ run_result = <<>>

\* `for p in files`: load_transcript(p), build the views, cut the chunks;
\* an unreadable file makes load_transcript raise, and nothing catches it
RunOpenFile ==
    /\ run_pc = "files"
    /\ file_idx <= Len(files)
    /\ IF ~files[file_idx].readable
       THEN /\ run_pc' = "raised"
            /\ run_error' = "file"
            /\ UNCHANGED <<file_idx, chunk_idx, session_items>>
       ELSE IF files[file_idx].chunks = 0
       THEN /\ file_idx' = file_idx + 1
            /\ UNCHANGED <<run_pc, run_error, chunk_idx, session_items>>
       ELSE /\ run_pc' = "chunks"
            /\ chunk_idx' = 1
            /\ session_items' = <<>>
            /\ UNCHANGED <<file_idx, run_error>>
    /\ UNCHANGED <<files, use_llm, run_items, run_result,
                   chunkVars, mineVars, rollVars, ticketVars, mergeVars,
                   analyzerVars>>

\* the signals of the chunk under the loop, from the candidates `raw`
RunChunkSignals(raw) ==
    MineChunk(raw, RunChunkViews(chunk_idx), DefaultMineConfig,
              SessionIdOf(file_idx), ChunkIdOf(file_idx, chunk_idx))

\* the end of one iteration of `for chunk in chunks` that added `validated`:
\* the next chunk, or after the last one the end of the file's iteration
RunAfterChunk(validated) ==
    IF chunk_idx < files[file_idx].chunks
    THEN /\ session_items' = session_items \o validated
         /\ chunk_idx' = chunk_idx + 1
         /\ UNCHANGED <<file_idx, run_items, run_pc>>
    ELSE /\ session_items' = session_items \o validated
         /\ run_items' = run_items \o session_items'
         /\ file_idx' = file_idx + 1
         /\ run_pc' = "files"
         /\ UNCHANGED chunk_idx

\* one chunk with the oracle: llm.complete raises, and nothing catches it,
\* or its reply is parsed, validated, sorted and cut
RunChunkOracle ==
    /\ run_pc = "chunks"
    /\ use_llm
    /\ \E out \in OracleOutcomes(RunChunkViews(chunk_idx)) :
          IF out.raised
          THEN /\ run_pc' = "raised"
               /\ run_error' = "oracle"
               /\ UNCHANGED <<file_idx, chunk_idx, session_items, run_items>>
          ELSE /\ RunAfterChunk(RunChunkSignals(out.reply))
               /\ UNCHANGED run_error
    /\ UNCHANGED <<files, use_llm, run_result, chunkVars, mineVars, rollVars, ticketVars, mergeVars,
                   analyzerVars>>

\* one chunk with the heuristics
RunChunkHeuristic ==
    /\ run_pc = "chunks"
    /\ ~use_llm
    /\ \E hits \in [1 .. 2 -> {"none", "error"}] :
          RunAfterChunk(RunChunkSignals(
              HeuristicExtract(RunChunkViews(chunk_idx), hits, DefaultMineConfig)))
    /\ UNCHANGED <<files, use_llm, run_error, run_result,
                   chunkVars, mineVars, rollVars, ticketVars, mergeVars,
                   analyzerVars>>

\* `return summary, items_out` after the last file
RunReturn ==
    /\ run_pc = "files"
    /\ file_idx > Len(files)
    /\ run_pc' = "returned"
    /\ run_result' = <<run_items>>
    /\ UNCHANGED <<files, use_llm, file_idx, chunk_idx, session_items, run_items,
                   run_error, chunkVars, mineVars, rollVars, ticketVars, mergeVars,
                   analyzerVars>>

NextRun == RunOpenFile \/ RunChunkOracle \/ RunChunkHeuristic \/ RunReturn

SpecRun == InitRun /\ [][NextRun]_vars

\* the run is over: mine_signals returned or an exception left it
RunEnded == run_pc \in {"returned", "raised"}

\* the signals validated so far in the run
RunExtracted ==
    {run_items[k] : k \in 1 .. Len(run_items)}
    \cup {session_items[k] : k \in 1 .. Len(session_items)}

\* the caller received a result, and it holds every signal validated so far
RunResultKeepsExtracted ==
    /\ run_pc = "returned"
    /\ run_result # <<>>
    /\ \A sig \in RunExtracted :
          \E k \in 1 .. Len(run_result[1]) : run_result[1][k] = sig

\* C12: an oracle call that fails for one chunk does not end the run: the
\* run goes on to return, and the signals extracted from the other chunks
\* and sessions are in what it returns
C12_OracleFailureContained ==
    (RunEnded /\ run_error = "oracle") => RunResultKeepsExtracted

\* C14: a session file that cannot be read does not end the run: the run
\* goes on to return, and the signals of the other files are in what it
\* returns
C14_FileFailureContained ==
    (RunEnded /\ run_error = "file") => RunResultKeepsExtracted

\* C13: when the merge oracle or the embedding service fails while the
\* merger runs, rollup_signals still returns its rollups
C13_MergeFailureContained ==
    (rstate # "input" /\ (rcfg.llm.raises \/ rcfg.embed = "raise"))
        => RollupReturned

\* C25: no two signals mine_signals returns for one session have the same
\* item_id
C25_SignalCreatedOnce ==
    run_pc = "returned"
    => \A i, j \in 1 .. Len(run_result[1]) :
          (/\ i # j
           /\ run_result[1][i].session_id = run_result[1][j].session_id)
          => run_result[1][i].item_id # run_result[1][j].item_id

\* ============================== Ticket exporter (scripts/ticket_rollup.py)

\* the defaults of --min-tier, --min-sessions, --min-items, --max-create and
\* --scan-limit
DefaultMinTier == 1

DefaultMinSessions == 3

DefaultMinItems == 10

DefaultMaxCreate == 10

DefaultScanLimit == 300

\* the most tasks maniphest.search is asked for
ScanCap == 100

DefaultTicketArgs ==
    [min_tier |-> DefaultMinTier, min_sessions |-> DefaultMinSessions,
     min_items |-> DefaultMinItems, max_create |-> DefaultMaxCreate,
     scan_limit |-> DefaultScanLimit, dry_run |-> FALSE]

\* the enumerated command lines: the defaults with one option changed
TicketArgs ==
    {[DefaultTicketArgs EXCEPT !.max_create = n] : n \in {0, 1, DefaultMaxCreate}}
    \cup {[DefaultTicketArgs EXCEPT !.dry_run = TRUE],
          [DefaultTicketArgs EXCEPT !.scan_limit = 0],
          [DefaultTicketArgs EXCEPT !.min_tier = 2]}

\* a rollup record that the policy lets through
BaseRecord ==
    [fingerprint_id |-> "fp1:a", tier |-> 1, max_severity |-> "low",
     count_sessions |-> 3, count_items |-> 1]

\* the enumerated records: the base record with its fingerprint id, its tier
\* or its counts changed
TicketRecords ==
    {BaseRecord,
     [BaseRecord EXCEPT !.fingerprint_id = "fp1:b"],
     [BaseRecord EXCEPT !.fingerprint_id = ""],
     [BaseRecord EXCEPT !.tier = 2],
     [BaseRecord EXCEPT !.tier = 0],
     [BaseRecord EXCEPT !.count_sessions = 1],
     [BaseRecord EXCEPT !.count_sessions = 1, !.count_items = 10],
     [BaseRecord EXCEPT !.count_sessions = 1, !.max_severity = "critical"]}

\* the tracker before the run: no task, or one task whose text holds the
\* fingerprint id fp1:a, or one task without a fingerprint id
TrackerStates == {<<>>, <<"fp1:a">>, <<"">>}

\* _should_create(r, min_tier, min_sessions, min_items)
ShouldCreate(r, min_tier, min_sessions, min_items) ==
    LET tier == IF r.tier = 0 THEN 9 ELSE r.tier
    IN  IF tier > min_tier THEN FALSE
        ELSE IF r.max_severity = "critical" THEN TRUE
        ELSE IF r.count_sessions >= min_sessions THEN TRUE
        ELSE IF r.count_items >= min_items THEN TRUE
        ELSE FALSE

\* _scan_existing_fingerprints(limit): the fingerprint ids in the text of
\* the first min(limit, 100) tasks
ScanExistingFingerprints(tasks, limit) ==
    LET seen == SubSeq(tasks, 1, Min(Min(limit, ScanCap), Len(tasks)))
    IN  {seen[k] : k \in 1 .. Len(seen)} \ {""}

InitTicket ==
    /\ AnalyzerIdle
    /\ MergeIdle
    /\ ChunkIdle
    /\ MineIdle
    /\ RollupIdle
    /\ RunIdle
    /\ targs \in TicketArgs
    /\ phorge \in TrackerStates
    /\ trecords \in UNION {[1 .. n -> TicketRecords] : n \in 0 .. MaxRecords}
    /\ existing = {}
    /\ tpos = 1
    /\ created = 0
    /\ updates = 0
    /\ new_tasks = <<>>
    /\ comments = <<>>
    /\ tpc = "scan"

\* existing = _scan_existing_fingerprints(args.scan_limit)
TicketScan ==
    /\ tpc = "scan"
    /\ existing' = ScanExistingFingerprints(phorge, targs.scan_limit)
    /\ tpc' = "loop"
    /\ UNCHANGED <<targs, phorge, trecords, tpos, created, updates, new_tasks,
                   comments, chunkVars, mineVars, rollVars, runVars, mergeVars,
                   analyzerVars>>

\* one iteration of `for r in rollups`
TicketRecord ==
    /\ tpc = "loop"
    /\ tpos <= Len(trecords)
    /\ LET r == trecords[tpos]
           fp == r.fingerprint_id
       IN  IF fp = ""
           THEN UNCHANGED <<created, updates, new_tasks, comments>>
           ELSE IF fp \in existing
           THEN /\ updates' = updates + 1
                /\ comments' = IF targs.dry_run THEN comments
                               ELSE Append(comments, fp)
                /\ UNCHANGED <<created, new_tasks>>
           ELSE IF created >= targs.max_create
           THEN UNCHANGED <<created, updates, new_tasks, comments>>
           ELSE IF ~ShouldCreate(r, targs.min_tier, targs.min_sessions,
                                 targs.min_items)
           THEN UNCHANGED <<created, updates, new_tasks, comments>>
           ELSE /\ created' = created + 1
                /\ new_tasks' = IF targs.dry_run THEN new_tasks
                                ELSE Append(new_tasks, fp)
                /\ UNCHANGED <<updates, comments>>
    /\ tpos' = tpos + 1
    /\ UNCHANGED <<targs, phorge, trecords, existing, tpc,
                   chunkVars, mineVars, rollVars, runVars, mergeVars,
                   analyzerVars>>

\* the loop is over: the closing line is printed
TicketDone ==
    /\ tpc = "loop"
    /\ tpos > Len(trecords)
    /\ tpc' = "done"
    /\ UNCHANGED <<targs, phorge, trecords, existing, tpos, created, updates,
                   new_tasks, comments, chunkVars, mineVars, rollVars, runVars, mergeVars,
                   analyzerVars>>

NextTicket == TicketScan \/ TicketRecord \/ TicketDone

SpecTicket == InitTicket /\ [][NextTicket]_vars

\* C15: in one run no fingerprint id gets two created tickets, no ticket is
\* created for a fingerprint id the scan found, and the tickets created
\* never number more than max_create
C15_OneTicketPerFingerprint ==
    /\ \A i, j \in 1 .. Len(new_tasks) : new_tasks[i] = new_tasks[j] => i = j
    /\ \A i \in 1 .. Len(new_tasks) : new_tasks[i] \notin existing
    /\ Len(new_tasks) <= targs.max_create
    /\ created <= targs.max_create

\* C30: every rollup rollup_signals returns, merged or not, has at most
\* cfg.max_tags entries in tags_top and at most cfg.max_samples entries in
\* sample_refs
C30_TagsAndSamplesCapped ==
    RollupReturned =>
        \A k \in 1 .. Len(rollups) :
            /\ Len(rollups[k].tags_top) <= rcfg.max_tags
            /\ Len(rollups[k].sample_refs) <= rcfg.max_samples

\* ============ Cluster Merger, one pair and one find at a time
\* (_merge_rollups_jaccard: the union-find over the blocks, then the groups)

\* the pool signals whose signatures differ pairwise
MergePoolIds == {1, 2, 3, 4, 5, 9}

\* the pool signals picked by S, in the pool's order
PickItems(S) ==
    SelectSeq([k \in 1 .. Len(SignalPool) |->
                  CHOOSE it \in PoolItems : it.item_id = k],
              LAMBDA it : it.item_id \in S)

\* the rollup lists the merger is called on
MergeInputs ==
    {SortRollups(GroupedRollups(PickItems(S), DefaultRollupConfig)) :
        S \in {T \in SUBSET MergePoolIds :
                  Cardinality(T) \in 1 .. MaxMergeRollups}}

\* the keys of `blocks`, in insertion order
MgKinds == Distinct([k \in 1 .. Len(mg_rs) |-> KindV2Primary(mg_rs[k])])

\* blocks[kind_v2] of the block at position b
MgIdxs(b) == BlockIdxs(mg_rs, MgKinds[b])

RECURSIVE NextPos(_, _, _)
\* the next pair the three loops reach from block b and positions i, j:
\* blocks of fewer than 2 rollups are skipped, b past the last block when
\* the loops are over
NextPos(b, i, j) ==
    IF b > Len(MgKinds) THEN [b |-> b, i |-> 1, j |-> 2]
    ELSE IF Len(MgIdxs(b)) < 2 \/ i > Len(MgIdxs(b)) THEN NextPos(b + 1, 1, 2)
    ELSE IF j > Len(MgIdxs(b)) THEN NextPos(b, i + 1, i + 2)
    ELSE [b |-> b, i |-> i, j |-> j]

InitMerge ==
    /\ AnalyzerIdle
    /\ ChunkIdle
    /\ MineIdle
    /\ RollupIdle
    /\ RunIdle
    /\ TicketIdle
    /\ mg_rs \in MergeInputs
    /\ mg_cap \in {DefaultMaxPairsPerBlock, 2}
    /\ mg_parent = [k \in 1 .. Len(mg_rs) |-> k]
    /\ mg_edges = {}
    /\ mg_pos = [b |-> 0, i |-> 1, j |-> 2]
    /\ mg_pairs = 0
    /\ mg_k = 1
    /\ mg_roots = <<>>
    /\ mg_out = <<>>
    /\ mg_pc = "pairs"

\* blocks filled, the loop over blocks.items() reaches its first pair
MergeEnter ==
    /\ mg_pc = "pairs"
    /\ mg_pos.b = 0
    /\ mg_pos' = NextPos(1, 1, 2)
    /\ UNCHANGED <<mg_rs, mg_cap, mg_parent, mg_edges, mg_pairs, mg_k,
                   mg_roots, mg_out, mg_pc>>
    /\ UNCHANGED <<chunkVars, mineVars, rollVars, runVars, ticketVars,
                   analyzerVars>>

\* one pass of the inner loop: pairs += 1, the break at the ceiling, else the
\* pair is compared and, when it meets the merge criterion (auto_jaccard, or
\* llm_jaccard and the oracle's decision), union is called
MergePair ==
    /\ mg_pc = "pairs"
    /\ mg_pos.b \in 1 .. Len(MgKinds)
    /\ LET idxs == MgIdxs(mg_pos.b)
           a == idxs[mg_pos.i]
           b == idxs[mg_pos.j]
       IN  IF mg_pairs + 1 > mg_cap
           THEN /\ mg_pos' = NextPos(mg_pos.b + 1, 1, 2)
                /\ mg_pairs' = 0
                /\ UNCHANGED <<mg_parent, mg_edges>>
           ELSE /\ mg_pos' = NextPos(mg_pos.b, mg_pos.i, mg_pos.j + 1)
                /\ mg_pairs' = IF mg_pos'.b = mg_pos.b THEN mg_pairs + 1 ELSE 0
                /\ \E met \in BOOLEAN :
                      IF met
                      THEN /\ mg_parent' = Union(mg_parent, a, b)
                           /\ mg_edges' = mg_edges \cup {<<a, b>>}
                      ELSE UNCHANGED <<mg_parent, mg_edges>>
    /\ UNCHANGED <<mg_rs, mg_cap, mg_k, mg_roots, mg_out, mg_pc>>
    /\ UNCHANGED <<chunkVars, mineVars, rollVars, runVars, ticketVars,
                   analyzerVars>>

\* the loop over the blocks is over
MergeStartGroups ==
    /\ mg_pc = "pairs"
    /\ mg_pos.b > Len(MgKinds)
    /\ mg_pc' = "groups"
    /\ UNCHANGED <<mg_rs, mg_cap, mg_parent, mg_edges, mg_pos, mg_pairs,
                   mg_k, mg_roots, mg_out>>
    /\ UNCHANGED <<chunkVars, mineVars, rollVars, runVars, ticketVars,
                   analyzerVars>>

\* groups[find(idx)].append(r) for one idx
MergeFind ==
    /\ mg_pc = "groups"
    /\ mg_k <= Len(mg_rs)
    /\ LET f == Find(mg_parent, mg_k)
       IN  /\ mg_parent' = f.parent
           /\ mg_roots' = Append(mg_roots, f.root)
    /\ mg_k' = mg_k + 1
    /\ UNCHANGED <<mg_rs, mg_cap, mg_edges, mg_pos, mg_pairs, mg_out, mg_pc>>
    /\ UNCHANGED <<chunkVars, mineVars, rollVars, runVars, ticketVars,
                   analyzerVars>>

\* the groups in the order their roots first occurred
GroupsByRoots(rs, roots) ==
    LET firsts == Distinct(roots)
    IN  [g \in 1 .. Len(firsts) |->
            LET idxs == SelectSeq([k \in 1 .. Len(rs) |-> k],
                                  LAMBDA k : roots[k] = firsts[g])
            IN  [m \in 1 .. Len(idxs) |-> rs[idxs[m]]]]

\* return _merge_groups(list(groups.values()))
MergeFinish ==
    /\ mg_pc = "groups"
    /\ mg_k > Len(mg_rs)
    /\ mg_out' = MergeGroups(GroupsByRoots(mg_rs, mg_roots))
    /\ mg_pc' = "done"
    /\ UNCHANGED <<mg_rs, mg_cap, mg_parent, mg_edges, mg_pos, mg_pairs,
                   mg_k, mg_roots>>
    /\ UNCHANGED <<chunkVars, mineVars, rollVars, runVars, ticketVars,
                   analyzerVars>>

NextMerge ==
    MergeEnter \/ MergePair \/ MergeStartGroups \/ MergeFind \/ MergeFinish

SpecMerge == InitMerge /\ [][NextMerge]_vars

RECURSIVE Up(_, _, _)
\* parent[...parent[x]...], n times
Up(parent, x, n) == IF n = 0 THEN x ELSE Up(parent, parent[x], n - 1)

\* every chain of parents ends at an element that is its own parent
IsForest(parent) ==
    \A x \in 1 .. Len(parent) :
        /\ parent[x] \in 1 .. Len(parent)
        /\ LET top == Up(parent, x, Len(parent)) IN parent[top] = top

\* the element the chain of parents of x ends at
RootOf(parent, x) == Up(parent, x, Len(parent))

RECURSIVE Reached(_, _, _)
\* the elements joined to those of S by at most n of the pairs in edges
Reached(edges, S, n) ==
    IF n = 0 THEN S
    ELSE Reached(edges,
                 S \cup {e[1] : e \in {d \in edges : d[2] \in S}}
                   \cup {e[2] : e \in {d \in edges : d[1] \in S}},
                 n - 1)

\* the connected component of x in the graph of the pairs in edges
Component(edges, x) == Reached(edges, {x}, Len(mg_rs))

\* C28: at every point of the merger's run the parent list is a forest, a
\* find returns the root of its element and leaves every element's root as
\* it was, two rollups have the same root exactly when the pairs union was
\* called on connect them, and once the merger has returned every input
\* signature id stands in exactly one output rollup, whose groups are those
\* connected components
C28_UnionFindComponents ==
    /\ IsForest(mg_parent)
    /\ \A x \in 1 .. Len(mg_rs) :
          LET f == Find(mg_parent, x)
          IN  /\ f.root = RootOf(mg_parent, x)
              /\ IsForest(f.parent)
              /\ \A y \in 1 .. Len(mg_rs) :
                    RootOf(f.parent, y) = RootOf(mg_parent, y)
    /\ \A x, y \in 1 .. Len(mg_rs) :
          (RootOf(mg_parent, x) = RootOf(mg_parent, y))
              <=> (y \in Component(mg_edges, x))
    /\ \A k \in 1 .. Len(mg_roots) : mg_roots[k] = RootOf(mg_parent, k)
    /\ mg_pc = "done" =>
          /\ \A k \in 1 .. Len(mg_rs) :
                Cardinality({o \in 1 .. Len(mg_out) :
                    mg_rs[k].signature_id \in Constituents(mg_out[o])}) = 1
          /\ \A o \in 1 .. Len(mg_out) :
                /\ mg_out[o].signature_id \in Constituents(mg_out[o])
                /\ \E x \in 1 .. Len(mg_rs) :
                      Constituents(mg_out[o]) =
                          {mg_rs[y].signature_id :
                              y \in Component(mg_edges, x)}
          /\ \A o \in 1 .. Len(mg_out) :
                \A m, n \in 1 .. Len(mg_out[o].merged_from) :
                    mg_out[o].merged_from[m] = mg_out[o].merged_from[n]
                        => m = n

\* the merger returned two rollups, one of them three rollups joined by two
\* unions, the second of which hung the root of the first under another root
C28_Witness ==
    /\ mg_pc = "done"
    /\ Cardinality(mg_edges) >= 2
    /\ \E x \in 1 .. Len(mg_rs) : Cardinality(Component(mg_edges, x)) >= 3
    /\ \E o \in 1 .. Len(mg_out) : Len(mg_out[o].merged_from) >= 3
    /\ Len(mg_out) >= 2
    /\ \E e \in mg_edges : mg_parent[e[1]] # e[1]

\* ====================== RecursiveAnalyzer.run (recursive_driver.py)

\* what a piece of generated code does under safe_exec: it runs and sets a
\* truthy FINAL, runs without one, fails ast.parse, fails _check_ast, raises
\* while it runs, or never finishes (`while True: pass` passes _check_ast)
CodeKinds == {"final", "nofinal", "syntax", "unsafe", "error", "loops"}

\* what self.llm.complete does: it returns a response whose text is code of
\* one kind, returns a response whose text is None, or raises
\* (raise_for_status, a transport error)
LlmReplies == CodeKinds \cup {"text_none", "raises"}

\* the exception safe_exec raises for the code, "None" when it raises none
SafeExecError(code) ==
    CASE code = "syntax" -> "SyntaxError"
      [] code = "unsafe" -> "UnsafeCodeError"
      [] code = "error" -> "Exception"
      [] OTHER -> "None"

\* _result_from_exec(res)["FINAL"] for code that ran
ResultFinal(code) == IF code = "final" THEN "set" ELSE "None"

InitAnalyzer ==
    /\ ChunkIdle
    /\ MineIdle
    /\ RollupIdle
    /\ RunIdle
    /\ TicketIdle
    /\ MergeIdle
    /\ max_iters \in 0 .. MaxIters
    /\ program \in {"None"} \cup CodeKinds
    /\ an_it = 1
    /\ last_error = "None"
    /\ prompt_error = "absent"
    /\ llm_calls = 0
    /\ produced_code = <<>>
    /\ an_pc = "loop"
    /\ an_result = <<>>

\* if program is not None: safe_exec(program) outside any try, then return
AnalyzerProgram ==
    /\ an_pc = "loop"
    /\ program # "None"
    /\ IF SafeExecError(program) # "None"
       THEN an_pc' = "raised" /\ UNCHANGED an_result
       ELSE IF program = "loops"
       THEN an_pc' = "running" /\ UNCHANGED an_result
       ELSE /\ an_pc' = "returned"
            /\ an_result' = [FINAL |-> ResultFinal(program)]
    /\ UNCHANGED <<max_iters, program, an_it, last_error, prompt_error,
                   llm_calls, produced_code>>
    /\ UNCHANGED <<chunkVars, mineVars, rollVars, runVars, ticketVars,
                   mergeVars>>

\* one pass of the loop up to safe_exec: the prompt is built with last_error
\* when it is truthy, llm.complete is called, code = resp.text.strip() is
\* appended to produced_code
AnalyzerComplete ==
    /\ an_pc = "loop"
    /\ program = "None"
    /\ an_it <= max_iters
    /\ prompt_error' = IF last_error = "None" THEN "absent" ELSE last_error
    /\ llm_calls' = llm_calls + 1
    /\ \E reply \in LlmReplies :
          IF reply \in {"raises", "text_none"}
          THEN an_pc' = "raised" /\ UNCHANGED produced_code
          ELSE /\ an_pc' = "exec"
               /\ produced_code' = Append(produced_code, reply)
    /\ UNCHANGED <<max_iters, program, an_it, last_error, an_result>>
    /\ UNCHANGED <<chunkVars, mineVars, rollVars, runVars, ticketVars,
                   mergeVars>>

\* the rest of the pass: safe_exec under try/except Exception, the test of
\* FINAL, the return or the next iteration
AnalyzerExec ==
    /\ an_pc = "exec"
    /\ LET code == produced_code[Len(produced_code)]
       IN  IF SafeExecError(code) # "None"
           THEN /\ last_error' = SafeExecError(code)
                /\ an_it' = an_it + 1
                /\ an_pc' = "loop"
                /\ UNCHANGED an_result
           ELSE IF code = "loops"
           THEN /\ an_pc' = "running"
                /\ UNCHANGED <<last_error, an_it, an_result>>
           ELSE IF ResultFinal(code) # "None"
           THEN /\ an_result' = [FINAL |-> ResultFinal(code),
                                 _iterations |-> an_it,
                                 _last_error |-> last_error,
                                 _code |-> code]
                /\ an_pc' = "returned"
                /\ UNCHANGED <<last_error, an_it>>
           ELSE /\ last_error' = "Program ran but did not set FINAL"
                /\ an_it' = an_it + 1
                /\ an_pc' = "loop"
                /\ UNCHANGED an_result
    /\ UNCHANGED <<max_iters, program, prompt_error, llm_calls,
                   produced_code>>
    /\ UNCHANGED <<chunkVars, mineVars, rollVars, runVars, ticketVars,
                   mergeVars>>

\* the loop is over: the fixed failure result
AnalyzerFail ==
    /\ an_pc = "loop"
    /\ program = "None"
    /\ an_it > max_iters
    /\ an_result' = [FINAL |-> "Failed to produce FINAL within max iterations.",
                     _iterations |-> max_iters,
                     _last_error |-> last_error,
                     _code |-> IF produced_code = <<>> THEN "None"
                               ELSE produced_code[Len(produced_code)]]
    /\ an_pc' = "returned"
    /\ UNCHANGED <<max_iters, program, an_it, last_error, prompt_error,
                   llm_calls, produced_code>>
    /\ UNCHANGED <<chunkVars, mineVars, rollVars, runVars, ticketVars,
                   mergeVars>>

NextAnalyzer ==
    AnalyzerProgram \/ AnalyzerComplete \/ AnalyzerExec \/ AnalyzerFail

SpecAnalyzer == InitAnalyzer /\ [][NextAnalyzer]_vars

\* C29: run without a program calls the oracle at most max_iters times and
\* always returns: no exception leaves it and no generated code keeps it
\* from returning; it returns at the first iteration whose code ran and set
\* a truthy FINAL, with _iterations that iteration; an exception of
\* safe_exec is the last_error of the next prompt; otherwise the result is
\* the fixed failure result with _iterations = max_iters
C29_AlwaysReturns ==
    program = "None" =>
        /\ llm_calls <= max_iters
        /\ an_pc \notin {"raised", "running"}
        /\ \A k \in 1 .. Len(produced_code) - 1 :
              produced_code[k] # "final"
        /\ (an_pc = "exec" /\ Len(produced_code) >= 2) =>
              LET before == produced_code[Len(produced_code) - 1]
              IN  SafeExecError(before) # "None"
                      => prompt_error = SafeExecError(before)
        /\ an_pc = "returned" =>
              \/ /\ an_result.FINAL = "set"
                 /\ an_result._iterations = Len(produced_code)
                 /\ produced_code[Len(produced_code)] = "final"
              \/ /\ an_result.FINAL
                        = "Failed to produce FINAL within max iterations."
                 /\ an_result._iterations = max_iters
                 /\ Len(produced_code) = max_iters
                 /\ \A k \in 1 .. Len(produced_code) :
                       produced_code[k] # "final"

====
